---- MODULE Spec2Model ----
(***************************************************************************)
(* A model of isar-core: the collection/index layer (put, delete,          *)
(* auto-increment with secondary index maintenance) and the query engine   *)
(* (id where-clauses, filter, distinct, offset/limit, sorting, find_while).*)
(***************************************************************************)
EXTENDS Integers, Sequences, FiniteSets, TLC

VARIABLES
    indexes,      \* IsarCollection.indexes: the collection's Index list
    data,         \* primary db of the collection: oid -> object (one row per key)
    index,        \* index db: set of <<index key, data key>> entries
    oidCounter,   \* the collection's auto-increment counter (largest id seen)
    result,       \* outcome of the last collection operation
    lastPut,      \* history: oid -> object of the last successful put (cleared by delete)
    issuedMax,    \* history: largest value auto_increment returned so far
    putMax,       \* history: largest oid a put stored so far
    query,        \* <<q>>: the Query last built (<< >>: none)
    stopAt,       \* the user callback returns false at its stopAt-th call (0: never)
    run,          \* <<es>>: final state of the last find_while call (<< >>: none)
    watchers,     \* IsarWatchers: the watcher registry, per collection id
    txn,          \* the write transaction and its ChangeSet
    notified,     \* watcher id -> number of times its callback was invoked
    schema,       \* <<s>>: the CollectionSchema being built (<< >>: none)
    built         \* <<b>>: the last value the schema or filter builder returned

storeVars == <<indexes, data, index, oidCounter, result, lastPut, issuedMax, putMax>>
queryVars == <<query, stopAt, run>>
otherVars == <<watchers, txn, notified, schema, built>>
vars == <<indexes, data, index, oidCounter, result, lastPut, issuedMax, putMax,
          query, stopAt, run, watchers, txn, notified, schema, built>>

----------------------------------------------------------------------------
(* Bounds of the model *)

MaxOid == 2        \* object ids range over MIN_ID..MaxOid
MaxVal == 1        \* the Int property "a" ranges over 0..MaxVal

MaxOffset == 1     \* query offsets range over 0..MaxOffset
MaxLimit == 2      \* query limits range over 0..MaxLimit, and USIZE_MAX
MaxStop == 2       \* the user callback stops at call 1..MaxStop, or never

MIN_ID == 1
MAX_ID == MaxOid + 1         \* largest id; stored objects have ids up to MaxOid
NULL_LONG == MIN_ID - 1      \* null sentinel of the oid property: below every id

ColId == 7         \* id (key prefix) of the one collection

Oids == MIN_ID..MaxOid
Vals == 0..MaxVal
\* values of the String property "w", as the sequence of words unicode_words()
\* yields; the words are numbered (two distinct words: 1 and 2)
Strings == {<< >>, <<2, 2>>, <<1, 2>>}

Objects == [id : Oids \cup {NULL_LONG}, a : Vals, w : Strings]

Max(x, y) == IF x >= y THEN x ELSE y

----------------------------------------------------------------------------
(* Index layer: src/src/index/mod.rs *)

Index(id, prop, index_type, unique, replace) ==
    [id |-> id, col_id |-> ColId, prop |-> prop, index_type |-> index_type,
     unique |-> unique, replace |-> replace]

\* IntKey::new(col_id, oid)
data_key(oid) == <<ColId, oid>>

\* itertools unique(): keep the first occurrence of every element
RECURSIVE Unique(_)
Unique(s) ==
    IF s = << >> THEN << >>
    ELSE LET front == Unique(SubSeq(s, 1, Len(s) - 1))
             last == s[Len(s)]
         IN IF \E i \in 1..Len(front) : front[i] = last
            THEN front ELSE Append(front, last)

\* Index::create_keys: the keys of an object, in the order they are emitted.
\* Every key starts with the index id (IndexKey::new); a Words index emits one
\* key per unique word, any other index exactly one key.
create_keys(self, object) ==
    IF self.index_type = "Words"
    THEN LET ws == Unique(object.w)
         IN [i \in 1..Len(ws) |-> <<self.id, ws[i]>>]
    ELSE << <<self.id, object[self.prop]>> >>

\* cursor.put_no_override: succeeds iff the db holds no entry under the key
put_no_override(db, key, val) ==
    IF \E e \in db : e[1] = key
    THEN [db |-> db, success |-> FALSE]
    ELSE [db |-> db \cup {<<key, val>>}, success |-> TRUE]

\* cursor.put on the duplicate-allowing index db
put_dup(db, key, val) == db \cup {<<key, val>>}

\* variant that removes every entry under the object's keys, whoever owns it
delete_for_object_by_key(self, db, oid, object) ==
    LET keys == create_keys(self, object)
    IN {e \in db : \A i \in 1..Len(keys) : e[1] # keys[i]}

\* Index::delete_for_object: value-addressed removal of the object's entries
delete_for_object(self, db, oid, object) ==
    LET keys == create_keys(self, object)
    IN db \ {<<keys[i], data_key(oid)>> : i \in 1..Len(keys)}

\* IsarCollection::delete_internal: read the row, remove its index entries
\* using the stored bytes, delete the row.  cs = [data, index] are the cursors.
RECURSIVE delete_all_indexes(_, _, _, _, _)
delete_all_indexes(ixs, i, db, oid, object) ==
    IF i > Len(ixs) THEN db
    ELSE delete_all_indexes(ixs, i + 1, delete_for_object(ixs[i], db, oid, object),
                            oid, object)

delete_internal(ixs, cs, oid) ==
    IF oid \in DOMAIN cs.data
    THEN [data |-> [k \in DOMAIN cs.data \ {oid} |-> cs.data[k]],
          index |-> delete_all_indexes(ixs, 1, cs.index, oid, cs.data[oid]),
          existed |-> TRUE]
    ELSE [data |-> cs.data, index |-> cs.index, existed |-> FALSE]

\* the delete_existing closure put hands to create_for_object
delete_existing(ixs, cs, oid) ==
    LET d == delete_internal(ixs, cs, oid)
    IN [data |-> d.data, index |-> d.index]

\* variant that treats every index as non-unique
create_for_object_key_dup(self, ixs, cs, id_key, key) ==
    [data |-> cs.data, index |-> put_dup(cs.index, key, id_key), err |-> "Ok"]

\* Index::create_for_object_key
create_for_object_key(self, ixs, cs, id_key, key) ==
    IF self.unique
    THEN LET p == put_no_override(cs.index, key, id_key)
         IN IF ~p.success
            THEN IF self.replace
                 THEN \* delete_existing(cursors, id_key.get_id()): the id passed
                      \* is the id of the object being put
                      LET d == delete_existing(ixs, [data |-> cs.data, index |-> p.db],
                                               id_key[2])
                      IN [data |-> d.data, index |-> d.index, err |-> "Ok"]
                 ELSE [data |-> cs.data, index |-> p.db, err |-> "UniqueViolated"]
            ELSE [data |-> cs.data, index |-> p.db, err |-> "Ok"]
    ELSE [data |-> cs.data, index |-> put_dup(cs.index, key, id_key), err |-> "Ok"]

\* Index::create_for_object: create_keys with a callback that inserts the key
\* and stops at the first error
RECURSIVE create_for_object_from(_, _, _, _, _, _)
create_for_object_from(self, ixs, cs, oid, keys, i) ==
    IF i > Len(keys) THEN [data |-> cs.data, index |-> cs.index, err |-> "Ok"]
    ELSE LET r == create_for_object_key(self, ixs, cs, data_key(oid), keys[i])
         IN IF r.err # "Ok" THEN r
            ELSE create_for_object_from(self, ixs, [data |-> r.data, index |-> r.index],
                                        oid, keys, i + 1)

create_for_object(self, ixs, cs, oid, object) ==
    create_for_object_from(self, ixs, cs, oid, create_keys(self, object), 1)

----------------------------------------------------------------------------
(* Collection layer *)

\* the loop of put over the collection's indexes; the first error is returned
RECURSIVE create_all_indexes(_, _, _, _, _)
create_all_indexes(ixs, i, cs, oid, object) ==
    IF i > Len(ixs) THEN [data |-> cs.data, index |-> cs.index, err |-> "Ok"]
    ELSE LET r == create_for_object(ixs[i], ixs, cs, oid, object)
         IN IF r.err # "Ok" THEN r
            ELSE create_all_indexes(ixs, i + 1, [data |-> r.data, index |-> r.index],
                                    oid, object)

\* variant of put that leaves the row of an oid that is already stored as it is
put_internal_keep(ixs, cs, object) ==
    IF object.id \in DOMAIN cs.data
    THEN [data |-> cs.data, index |-> cs.index, err |-> "Ok"]
    ELSE LET r == create_all_indexes(ixs, 1, cs, object.id, object)
         IN IF r.err # "Ok" THEN r
            ELSE [data |-> [k \in DOMAIN r.data \cup {object.id} |->
                               IF k = object.id THEN object ELSE r.data[k]],
                  index |-> r.index, err |-> "Ok"]

\* IsarCollection::put: if a prior row exists its index entries are removed
\* first, using the old bytes; then the index entries of the object are
\* created; then the data row is upserted under data_key(oid)
put_internal(ixs, cs, object) ==
    LET oid == object.id
        cleaned == IF oid \in DOMAIN cs.data
                   THEN delete_all_indexes(ixs, 1, cs.index, oid, cs.data[oid])
                   ELSE cs.index
        r == create_all_indexes(ixs, 1, [data |-> cs.data, index |-> cleaned],
                                oid, object)
    IN IF r.err # "Ok" THEN r
       ELSE [data |-> [k \in DOMAIN r.data \cup {oid} |->
                          IF k = oid THEN object ELSE r.data[k]],
             index |-> r.index, err |-> "Ok"]

\* IsarCollection::auto_increment: the next id after the largest one seen
auto_increment(counter) == counter + 1

\* the counter follows the largest oid stored
update_oid_counter(counter, oid) == Max(counter, oid)

\* variant that issues the counter without advancing it
update_auto_increment_same(counter, object) ==
    IF object.id = NULL_LONG
    THEN LET oid == Max(counter, MIN_ID)
         IN [object |-> [object EXCEPT !.id = oid], oid |-> oid, issued |-> TRUE,
             counter |-> oid]
    ELSE [object |-> object, oid |-> object.id, issued |-> FALSE,
          counter |-> counter]

\* dart-ffi update_auto_increment: a null oid is replaced by a fresh id that
\* is patched into the object's bytes
update_auto_increment(counter, object) ==
    IF object.id = NULL_LONG
    THEN LET oid == auto_increment(counter)
         IN [object |-> [object EXCEPT !.id = oid], oid |-> oid, issued |-> TRUE,
             counter |-> oid]
    ELSE [object |-> object, oid |-> object.id, issued |-> FALSE,
          counter |-> counter]

----------------------------------------------------------------------------
(* Query engine: src/src/query/id_where_clause.rs, src/src/query/mod.rs *)

USIZE_MAX == 255          \* usize, kept at a width of 8 bits

IdWhereClause(prefix, lower, upper, sort) ==
    [prefix |-> prefix, lower |-> lower, upper |-> upper, sort |-> sort]

\* IdWhereClause::is_empty
is_empty(self) == self.upper < self.lower

\* IdWhereClause::id_matches
id_matches(self, oid) == self.lower <= oid /\ self.upper >= oid

\* IdWhereClause::is_overlapping
is_overlapping(self, other) ==
    /\ self.prefix = other.prefix
    /\ \/ (self.lower <= other.lower /\ self.upper >= other.upper)
       \/ (other.lower <= self.lower /\ other.upper >= self.upper)

\* Query::check_where_clauses_overlapping
check_where_clauses_overlapping(where_clauses) ==
    \E i \in 1..Len(where_clauses) : \E j \in (i + 1)..Len(where_clauses) :
        is_overlapping(where_clauses[i], where_clauses[j])

\* Query::new
Query_new(where_clauses, filter, sort, distinct, offset, limit) ==
    [where_clauses |-> where_clauses,
     where_clauses_overlapping |-> check_where_clauses_overlapping(where_clauses),
     filter |-> filter, sort |-> sort, distinct |-> distinct,
     offset |-> offset, limit |-> limit]

\* QueryBuilder::build: without where-clauses the query runs over the id range
\* [MIN_ID, MAX_ID] ascending
QueryBuilder_build(where_clauses, filter, sort, distinct, offset, limit) ==
    Query_new(IF where_clauses = << >>
              THEN <<IdWhereClause(ColId, MIN_ID, MAX_ID, "Ascending")>>
              ELSE where_clauses,
              filter, sort, distinct, offset, limit)

\* Filter::evaluate for the filters of the model
evaluate(filter, object) ==
    IF filter.kind = "Static" THEN filter.value
    ELSE filter.lower <= object[filter.prop] /\ object[filter.prop] <= filter.upper

StaticFilter(value) ==
    [kind |-> "Static", value |-> value, prop |-> "a", lower |-> 0, upper |-> 0]
IntBetween(prop, lower, upper) ==
    [kind |-> "IntBetween", value |-> TRUE, prop |-> prop, lower |-> lower,
     upper |-> upper]

\* the ids of a set in ascending order
RECURSIVE Ascending(_)
Ascending(S) ==
    IF S = {} THEN << >>
    ELSE LET m == CHOOSE x \in S : \A y \in S : x <= y
         IN <<m>> \o Ascending(S \ {m})

Reverse(s) == [i \in 1..Len(s) |-> s[Len(s) + 1 - i]]

\* Cursor::iter_between on the data db: the keys of the collection in
\* [lower, upper], ascending or descending
iter_between(db, lower, upper, ascending) ==
    LET keys == Ascending({oid \in DOMAIN db : lower <= oid /\ oid <= upper})
    IN IF ascending THEN keys ELSE Reverse(keys)

\* The state of one find_while call.  calls: the objects handed to the user
\* callback, each with the where-clause that produced it; fetched: the ids the
\* cursor visited; evaluated: the ids the filter was evaluated on; seen:
\* result_ids; count and hashes: the state of the offset/limit and distinct
\* closures; results: the buffer of the sorted path.
NewExec(stop) ==
    [calls |-> << >>, fetched |-> << >>, evaluated |-> << >>, seen |-> {},
     count |-> 0, hashes |-> {}, results |-> << >>, stop |-> stop,
     refused |-> FALSE, after |-> 0]

\* the user callback: returns false at its stop-th invocation (never if 0);
\* after counts the invocations made once it has returned false
user_callback(es, entry) ==
    LET n == Len(es.calls) + 1
    IN [es |-> [es EXCEPT !.calls = Append(@, entry),
                          !.refused = @ \/ n = es.stop,
                          !.after = IF es.refused THEN @ + 1 ELSE @],
        cont |-> n # es.stop]

\* IsarObject::hash_property fed to WyHash over the distinct properties: a
\* number that differs for different value tuples
HashBase == MaxOid + MaxVal + 3
RECURSIVE hash_properties(_, _, _, _)
hash_properties(properties, i, object, h) ==
    IF i > Len(properties) THEN h
    ELSE hash_properties(properties, i + 1, object,
                         h * HashBase + object[properties[i].prop] + 1)

\* Query::add_distinct_unsorted
add_distinct_unsorted(self, es, entry) ==
    LET hash == hash_properties(self.distinct, 1, entry.obj, 0)
    IN IF hash \notin es.hashes
       THEN user_callback([es EXCEPT !.hashes = @ \cup {hash}], entry)
       ELSE [es |-> es, cont |-> TRUE]

saturating_add(x, y) == IF x + y > USIZE_MAX THEN USIZE_MAX ELSE x + y

\* Query::add_offset_limit_unsorted around the callback execute_unsorted
\* hands it: the distinct closure if distinct is set, else the user callback
add_offset_limit_unsorted(self, es, entry) ==
    LET max_count == saturating_add(self.limit, self.offset)
        count == es.count + 1
        es1 == [es EXCEPT !.count = count]
    IN IF count > max_count THEN [es |-> es1, cont |-> FALSE]
       ELSE IF count > self.offset
            THEN IF self.distinct # << >>
                 THEN add_distinct_unsorted(self, es1, entry)
                 ELSE user_callback(es1, entry)
            ELSE [es |-> es1, cont |-> TRUE]

\* the callback execute_sorted hands to execute_raw
push_result(es, entry) ==
    [es |-> [es EXCEPT !.results = Append(@, entry)], cont |-> TRUE]

\* the closure of execute_raw: evaluate the filter, call the callback
raw_callback(self, es, entry, sorted) ==
    LET filter == IF self.filter = << >> THEN StaticFilter(TRUE) ELSE self.filter[1]
        es1 == [es EXCEPT !.evaluated = Append(@, entry.obj.id)]
    IN IF evaluate(filter, entry.obj)
       THEN IF sorted THEN push_result(es1, entry)
            ELSE add_offset_limit_unsorted(self, es1, entry)
       ELSE [es |-> es1, cont |-> TRUE]

\* the loop of IdWhereClause::iter: a row whose id is already in result_ids
\* is skipped; stop when the callback returns false
RECURSIVE iter_from(_, _, _, _, _, _, _)
iter_from(self, db, keys, k, wc, es, sorted) ==
    IF k > Len(keys) THEN [es |-> es, cont |-> TRUE]
    ELSE LET id == keys[k]
             es1 == [es EXCEPT !.fetched = Append(@, id)]
         IN IF self.where_clauses_overlapping /\ id \in es.seen
            THEN iter_from(self, db, keys, k + 1, wc, es1, sorted)
            ELSE LET es2 == IF self.where_clauses_overlapping
                            THEN [es1 EXCEPT !.seen = @ \cup {id}] ELSE es1
                     r == raw_callback(self, es2, [obj |-> db[id], wc |-> wc], sorted)
                 IN IF r.cont
                    THEN iter_from(self, db, keys, k + 1, wc, r.es, sorted)
                    ELSE r

\* variant that ignores the direction of the where-clause
iter_ascending(self, db, wc, es, sorted) ==
    LET clause == self.where_clauses[wc]
    IN iter_from(self, db, iter_between(db, clause.lower, clause.upper, TRUE),
                 1, wc, es, sorted)

\* variant that visits the range against the direction of the where-clause
iter_reversed(self, db, wc, es, sorted) ==
    LET clause == self.where_clauses[wc]
    IN iter_from(self, db,
                 iter_between(db, clause.lower, clause.upper,
                              clause.sort # "Ascending"),
                 1, wc, es, sorted)

\* IdWhereClause::iter: visit the rows of the range, in the direction of the
\* clause's sort
iter(self, db, wc, es, sorted) ==
    LET clause == self.where_clauses[wc]
    IN iter_from(self, db,
                 iter_between(db, clause.lower, clause.upper,
                              clause.sort = "Ascending"),
                 1, wc, es, sorted)

\* variant that goes on to the next where-clause after the callback said stop
RECURSIVE execute_raw_all_clauses(_, _, _, _, _)
execute_raw_all_clauses(self, db, wc, es, sorted) ==
    IF wc > Len(self.where_clauses) THEN es
    ELSE execute_raw_all_clauses(self, db, wc + 1,
                                 iter(self, db, wc, es, sorted).es, sorted)

\* Query::execute_raw: the where-clauses in order, until one is stopped
RECURSIVE execute_raw(_, _, _, _, _)
execute_raw(self, db, wc, es, sorted) ==
    IF wc > Len(self.where_clauses) THEN es
    ELSE LET r == iter(self, db, wc, es, sorted)
         IN IF ~r.cont THEN r.es
            ELSE execute_raw(self, db, wc + 1, r.es, sorted)

\* Query::execute_unsorted
execute_unsorted(self, db, es) == execute_raw(self, db, 1, es, FALSE)

\* IsarObject::compare_property
compare_property(o1, o2, p) ==
    IF o1[p] < o2[p] THEN "Less" ELSE IF o1[p] > o2[p] THEN "Greater" ELSE "Equal"

ord_reverse(ord) ==
    IF ord = "Less" THEN "Greater" ELSE IF ord = "Greater" THEN "Less" ELSE "Equal"

\* the comparator of execute_sorted
RECURSIVE sort_compare(_, _, _, _)
sort_compare(sort, i, o1, o2) ==
    IF i > Len(sort) THEN "Equal"
    ELSE LET ord == compare_property(o1, o2, sort[i].prop)
         IN IF ord # "Equal"
            THEN IF sort[i].sort = "Ascending" THEN ord ELSE ord_reverse(ord)
            ELSE sort_compare(sort, i + 1, o1, o2)

\* sort_unstable_by: every arrangement of the buffer that is ordered by the
\* comparator; elements that compare equal may end in any order
RECURSIVE sort_unstable_by(_, _, _)
sort_unstable_by(results, I, sort) ==
    IF I = {} THEN {<< >>}
    ELSE UNION {
           {<<results[i]>> \o t : t \in sort_unstable_by(results, I \ {i}, sort)} :
           i \in {m \in I : \A j \in I :
                     sort_compare(sort, 1, results[m].obj, results[j].obj) # "Greater"}}

\* Query::add_distinct_sorted: keep the first object of every hash
RECURSIVE add_distinct_sorted(_, _, _, _)
add_distinct_sorted(self, results, i, hashes) ==
    IF i > Len(results) THEN << >>
    ELSE LET hash == hash_properties(self.distinct, 1, results[i].obj, 0)
         IN IF hash \in hashes
            THEN add_distinct_sorted(self, results, i + 1, hashes)
            ELSE <<results[i]>>
                 \o add_distinct_sorted(self, results, i + 1, hashes \cup {hash})

\* variant of execute_sorted that returns the sorted buffer as it is
execute_sorted_no_distinct(self, db, es) ==
    LET es1 == execute_raw(self, db, 1, es, TRUE)
        sorted == sort_unstable_by(es1.results, 1..Len(es1.results), self.sort)
    IN {[es |-> es1, results |-> r] : r \in sorted}

\* Query::execute_sorted: the outcomes the sort can produce
execute_sorted(self, db, es) ==
    LET es1 == execute_raw(self, db, 1, es, TRUE)
        sorted == sort_unstable_by(es1.results, 1..Len(es1.results), self.sort)
    IN {[es |-> es1,
         results |-> IF self.distinct # << >>
                     THEN add_distinct_sorted(self, r, 1, {}) ELSE r] :
        r \in sorted}

\* Query::add_offset_limit_sorted: skip(offset).take(limit)
add_offset_limit_sorted(self, results) ==
    LET n == Len(results)
        first == IF self.offset > n THEN n + 1 ELSE self.offset + 1
        last == IF first - 1 + self.limit > n THEN n ELSE first - 1 + self.limit
    IN SubSeq(results, first, last)

\* the loop of find_while_internal over the sorted results
RECURSIVE call_sorted(_, _, _)
call_sorted(results, i, es) ==
    IF i > Len(results) THEN es
    ELSE LET r == user_callback(es, results[i])
         IN IF ~r.cont THEN r.es ELSE call_sorted(results, i + 1, r.es)

\* Query::find_while_internal / Query::find_while: the set of final states
find_while(self, db, stop) ==
    IF self.sort = << >>
    THEN {execute_unsorted(self, db, NewExec(stop))}
    ELSE {call_sorted(add_offset_limit_sorted(self, s.results), 1, s.es) :
          s \in execute_sorted(self, db, NewExec(stop))}

\* the index lists a collection is opened with
IndexPolicies == {<<FALSE, FALSE>>, <<TRUE, FALSE>>, <<TRUE, TRUE>>}
ValueIndexes == {Index(1, "a", "Value", p[1], p[2]) : p \in IndexPolicies}
WordsIndexes == {Index(2, "w", "Words", p[1], p[2]) : p \in IndexPolicies}
Schemas == {<<i>> : i \in ValueIndexes \cup WordsIndexes}

\* the objects put into a collection: a property no index reads keeps its default
Indexed(ixs, prop) == \E i \in 1..Len(ixs) : ixs[i].prop = prop
ObjectsFor(ixs, ids) ==
    [id : ids,
     a : IF Indexed(ixs, "a") THEN Vals ELSE {0},
     w : IF Indexed(ixs, "w") THEN Strings ELSE {<< >>}]

NoResult == [op |-> "none", err |-> "Ok", val |-> 0, prior |-> << >>]

InitStore(schemas) ==
    /\ indexes \in schemas
    /\ data = << >>
    /\ index = {}
    /\ oidCounter = MIN_ID - 1
    /\ result = NoResult
    /\ lastPut = << >>
    /\ issuedMax = MIN_ID - 1
    /\ putMax = MIN_ID - 1

\* the state after isar_put: u is what update_auto_increment returned, r what
\* IsarCollection::put returned
put_outcome(u, r) ==
    /\ u.oid <= MaxOid
    /\ data' = r.data
    /\ index' = r.index
    /\ oidCounter' = IF r.err = "Ok" THEN update_oid_counter(u.counter, u.oid)
                     ELSE u.counter
    /\ result' = [op |-> "put", err |-> r.err, val |-> u.oid,
                  prior |-> IF u.oid \in DOMAIN data THEN <<data[u.oid]>>
                            ELSE << >>]
    /\ lastPut' = IF r.err = "Ok"
                  THEN [k \in DOMAIN lastPut \cup {u.oid} |->
                           IF k = u.oid THEN u.object ELSE lastPut[k]]
                  ELSE lastPut
    /\ issuedMax' = IF u.issued THEN Max(issuedMax, u.oid) ELSE issuedMax
    /\ putMax' = IF r.err = "Ok" THEN Max(putMax, u.oid) ELSE putMax
    /\ UNCHANGED <<indexes, query, stopAt, run>>
    /\ UNCHANGED otherVars

put_object(u) ==
    put_outcome(u, put_internal(indexes, [data |-> data, index |-> index], u.object))

\* isar_put: update_auto_increment, then IsarCollection::put
Put(obj) == put_object(update_auto_increment(oidCounter, obj))

\* isar_delete: IsarCollection::delete
Delete(oid) ==
    LET d == delete_internal(indexes, [data |-> data, index |-> index], oid)
    IN /\ data' = d.data
       /\ index' = d.index
       /\ result' = [op |-> "delete", err |-> "Ok", val |-> oid,
                     prior |-> IF d.existed THEN <<data[oid]>> ELSE << >>]
       /\ lastPut' = [k \in DOMAIN lastPut \ {oid} |-> lastPut[k]]
       /\ UNCHANGED <<indexes, oidCounter, issuedMax, putMax, query, stopAt, run>>
       /\ UNCHANGED otherVars

\* IsarCollection::auto_increment called directly
AutoIncrement ==
    LET oid == auto_increment(oidCounter)
    IN /\ oid <= MaxOid
       /\ oidCounter' = oid
       /\ result' = [op |-> "auto_increment", err |-> "Ok", val |-> oid,
                     prior |-> << >>]
       /\ issuedMax' = Max(issuedMax, oid)
       /\ UNCHANGED <<indexes, data, index, lastPut, putMax, query, stopAt, run>>
       /\ UNCHANGED otherVars

IdleQuery ==
    /\ query = << >>
    /\ stopAt = 0
    /\ run = << >>

\* no watcher registered, no transaction begun, no schema under construction
IdleOther ==
    /\ watchers = << >>
    /\ txn = << >>
    /\ notified = << >>
    /\ schema = << >>
    /\ built = << >>

\* The collection and its indexes under put and delete of objects with given ids
Init == InitStore(Schemas) /\ IdleQuery /\ IdleOther

Next ==
    \/ \E obj \in ObjectsFor(indexes, Oids) : Put(obj)
    \/ \E oid \in Oids : Delete(oid)

Spec == Init /\ [][Next]_vars

\* Id assignment: puts with and without an id, deletes and auto_increment calls
AutoSchemas == {<< >>, <<Index(1, "a", "Value", TRUE, FALSE)>>}

InitAuto == InitStore(AutoSchemas) /\ IdleQuery /\ IdleOther

NextAuto ==
    \/ \E obj \in ObjectsFor(indexes, Oids \cup {NULL_LONG}) : Put(obj)
    \/ \E oid \in Oids : Delete(oid)
    \/ AutoIncrement

SpecAuto == InitAuto /\ [][NextAuto]_vars

----------------------------------------------------------------------------
(* Queries over a populated collection *)

Sorts == {"Ascending", "Descending"}
Clauses == {IdWhereClause(ColId, l, u, d) : l \in MIN_ID..MAX_ID, u \in MIN_ID..MAX_ID,
                                            d \in Sorts}
NonEmptyClauses == {c \in Clauses : ~is_empty(c)}
\* no clause, any one clause, any two non-empty clauses
WhereClauseLists == {<< >>} \cup {<<c>> : c \in Clauses}
                            \cup {<<c, d>> : c \in NonEmptyClauses, d \in NonEmptyClauses}
Filters == {<< >>, <<IntBetween("a", 1, MaxVal)>>}
SortBy(prop, dir) == [prop |-> prop, sort |-> dir]
SortLists == {<< >>, <<SortBy("a", "Ascending")>>, <<SortBy("a", "Descending")>>,
              <<SortBy("a", "Descending"), SortBy("id", "Descending")>>}
DistinctLists == {<< >>, <<[prop |-> "a", case_sensitive |-> TRUE]>>}

QueryInput(wcs, filter, sort, distinct, offset, limit, stop) ==
    [wcs |-> wcs, filter |-> filter, sort |-> sort, distinct |-> distinct,
     offset |-> offset, limit |-> limit, stop |-> stop]

\* every list of where-clauses: unsorted with and without filter, and sorted
ClauseInputs ==
    {QueryInput(wcs, fs[1], fs[2], << >>, 0, USIZE_MAX, 0) :
        wcs \in WhereClauseLists,
        fs \in {<< << >>, << >> >>,
                << <<IntBetween("a", 1, MaxVal)>>, << >> >>,
                << <<IntBetween("a", 1, MaxVal)>>, <<SortBy("a", "Ascending")>> >>}}

\* distinct, offset, limit and sorting over the whole id range and over two
\* disjoint clauses
PagingClauses ==
    {<< >>,
     <<IdWhereClause(ColId, MIN_ID, MAX_ID, "Descending")>>,
     <<IdWhereClause(ColId, MIN_ID + 1, MAX_ID, "Ascending"),
       IdWhereClause(ColId, MIN_ID, MIN_ID, "Ascending")>>}
PagingInputs ==
    {QueryInput(wcs, f, s, d, o, l, 0) :
        wcs \in PagingClauses, f \in Filters, s \in SortLists, d \in DistinctLists,
        o \in 0..MaxOffset, l \in (0..MaxLimit) \cup {USIZE_MAX}}

\* a user callback that returns false at one of its calls
StoppingInputs ==
    {QueryInput(wcs, << >>, s, d, o, USIZE_MAX, stop) :
        wcs \in PagingClauses, s \in {<< >>, <<SortBy("a", "Ascending")>>},
        d \in DistinctLists, o \in 0..MaxOffset, stop \in 1..MaxStop}

QueryInputs == ClauseInputs \cup PagingInputs \cup StoppingInputs

\* the collections queried: any rows with ids in Oids
QueryData ==
    UNION {{[oid \in S |-> [id |-> oid, a |-> f[oid], w |-> << >>]] : f \in [S -> Vals]} :
           S \in SUBSET Oids}

InitQuery ==
    /\ indexes = << >>
    /\ data \in QueryData
    /\ index = {}
    /\ oidCounter = MIN_ID - 1
    /\ result = NoResult
    /\ lastPut = data
    /\ issuedMax = MIN_ID - 1
    /\ putMax = MIN_ID - 1
    /\ IdleQuery
    /\ IdleOther

\* build a query and run find_while once, with a callback that stops at call
\* in.stop (a query reads the collection and leaves it unchanged)
FindWhile(in) ==
    LET q == QueryBuilder_build(in.wcs, in.filter, in.sort, in.distinct,
                                in.offset, in.limit)
    IN /\ run = << >>
       /\ query' = <<q>>
       /\ stopAt' = in.stop
       /\ \E es \in find_while(q, data, in.stop) : run' = <<es>>
       /\ UNCHANGED storeVars
       /\ UNCHANGED otherVars

NextQuery == \E in \in QueryInputs : FindWhile(in)

SpecQuery == InitQuery /\ [][NextQuery]_vars

----------------------------------------------------------------------------
(* Properties of the collection and index layer *)

KeySet(self, object) ==
    LET keys == create_keys(self, object) IN {keys[i] : i \in 1..Len(keys)}

\* the entries of an index's db that point at a data key
EntriesOf(self, db, oid) == {e \in db : e[1][1] = self.id /\ e[2] = data_key(oid)}

\* C1: index consistency. For every data row (oid, bytes) and every index of
\* the collection, the entries of the index that point at data_key(oid) are
\* exactly the keys create_keys generates from bytes.
C1_IndexConsistency ==
    \A oid \in DOMAIN data : \A i \in 1..Len(indexes) :
        EntriesOf(indexes[i], index, oid)
            = {<<k, data_key(oid)>> : k \in KeySet(indexes[i], data[oid])}

\* a key the object generates in a unique index of the given replace policy is
\* already owned by another oid
Collision(obj, a, replace) ==
    /\ a # obj.id
    /\ \E i \in 1..Len(indexes) :
          /\ indexes[i].unique /\ indexes[i].replace = replace
          /\ \E k \in KeySet(indexes[i], obj) : <<k, data_key(a)>> \in index

NoSharedUniqueKey ==
    \A i \in 1..Len(indexes) :
        (indexes[i].unique /\ ~indexes[i].replace) =>
            \A e1 \in index : \A e2 \in index :
                (e1[1][1] = indexes[i].id /\ e1[1] = e2[1]) => e1[2] = e2[2]

\* C2: unique integrity. With a unique, non-replace index, a put whose key is
\* owned by a different oid fails with UniqueViolated, and in every state no
\* key of such an index is associated with two different oids.
C2_UniqueIntegrity ==
    /\ [][\A obj \in ObjectsFor(indexes, Oids) :
            (Put(obj) /\ \E a \in Oids : Collision(obj, a, FALSE))
                => result'.err = "UniqueViolated"]_vars
    /\ []NoSharedUniqueKey

C2_Witness ==
    /\ result.op = "put" /\ result.err = "UniqueViolated"
    /\ \E e \in index : e[2] # data_key(result.val)

\* C3: unique index with replace. A put of object B whose key is owned by a
\* different row A deletes row A and all of A's index entries, and afterwards
\* the key maps to data_key(b) and B's row exists.
C3_ReplaceDeletesOwner ==
    [][\A obj \in ObjectsFor(indexes, Oids) : \A a \in Oids :
          (Put(obj) /\ a \in DOMAIN data /\ Collision(obj, a, TRUE)) =>
              /\ a \notin DOMAIN data'
              /\ \A e \in index' : e[2] # data_key(a)
              /\ obj.id \in DOMAIN data' /\ data'[obj.id] = obj
              /\ \A i \in 1..Len(indexes) : \A k \in KeySet(indexes[i], obj) :
                    <<k, data_key(obj.id)>> \in index']_vars

IssuedStep ==
    \/ result'.op = "auto_increment" /\ oidCounter' # oidCounter
    \/ \E obj \in ObjectsFor(indexes, {NULL_LONG}) : Put(obj)

\* C6: auto_increment returns MIN_ID on a collection that never held a row and
\* never issued an id, and otherwise max(largest id issued, largest oid put) + 1;
\* the value is greater than every oid put and every id issued before.
C6_AutoIncrement ==
    [][IssuedStep =>
        /\ result'.val = IF issuedMax < MIN_ID /\ putMax < MIN_ID THEN MIN_ID
                          ELSE Max(issuedMax, putMax) + 1
        /\ result'.val > issuedMax
        /\ \A oid \in DOMAIN lastPut : result'.val > oid
        /\ result'.val > putMax]_vars

C6_Witness ==
    /\ result.op = "auto_increment"
    /\ putMax >= MIN_ID /\ issuedMax > putMax /\ result.val = issuedMax
    /\ result.val > MIN_ID

----------------------------------------------------------------------------
(* Properties of the query engine *)

Ran == run # << >>
Q == query[1]
R == run[1]

CallObjects(es) == [i \in 1..Len(es.calls) |-> es.calls[i].obj]
Occurrences(es, oid) == Cardinality({i \in 1..Len(es.calls) : es.calls[i].obj.id = oid})

FilterAccepts(q, object) ==
    IF q.filter = << >> THEN TRUE
    ELSE LET f == q.filter[1]
         IN IF f.kind = "Static" THEN f.value
            ELSE object[f.prop] \in f.lower..f.upper

InSomeRange(q, oid) ==
    \E i \in 1..Len(q.where_clauses) :
        oid \in q.where_clauses[i].lower..q.where_clauses[i].upper

Unpaged(q) == q.distinct = << >> /\ q.offset = 0 /\ q.limit = USIZE_MAX

\* C4: where-clause/query equivalence. Without distinct, offset and limit a
\* query yields an object iff its id lies in the range of at least one
\* where-clause and the filter accepts it, and yields it exactly once.
C4_YieldedExactlyOnce ==
    (Ran /\ Unpaged(Q) /\ stopAt = 0) =>
        \A oid \in DOMAIN data :
            Occurrences(R, oid) =
                IF InSomeRange(Q, oid) /\ FilterAccepts(Q, data[oid]) THEN 1 ELSE 0

\* the matching objects in iteration order: what the query yields without
\* distinct, offset and limit
MatchingInOrder(q, db) ==
    CallObjects(execute_unsorted([q EXCEPT !.distinct = << >>, !.offset = 0,
                                           !.limit = USIZE_MAX], db, NewExec(0)))

DistinctKey(q, object) == [i \in 1..Len(q.distinct) |-> object[q.distinct[i].prop]]

RECURSIVE FirstOfEachKey(_, _, _, _)
FirstOfEachKey(q, objects, i, keys) ==
    IF i > Len(objects) THEN << >>
    ELSE IF DistinctKey(q, objects[i]) \in keys
         THEN FirstOfEachKey(q, objects, i + 1, keys)
         ELSE <<objects[i]>>
              \o FirstOfEachKey(q, objects, i + 1, keys \cup {DistinctKey(q, objects[i])})

DropTake(s, offset, limit) ==
    LET first == IF offset > Len(s) THEN Len(s) + 1 ELSE offset + 1
        last == IF offset + limit > Len(s) THEN Len(s) ELSE offset + limit
    IN SubSeq(s, first, last)

\* C7: unsorted path with distinct, offset o and limit l. The result is the
\* matching objects in iteration order, reduced to the first occurrence of each
\* distinct key, with the first o dropped and at most l of the rest kept.
C7_DistinctBeforeOffsetLimit ==
    (Ran /\ Q.sort = << >> /\ Q.distinct # << >> /\ stopAt = 0) =>
        CallObjects(R) =
            DropTake(FirstOfEachKey(Q, MatchingInOrder(Q, data), 1, {}),
                     Q.offset, Q.limit)

\* the arrangement a stable sort produces: of the smallest elements, the one
\* yielded first comes first
RECURSIVE StableSorted(_, _, _)
StableSorted(results, I, sort) ==
    IF I = {} THEN << >>
    ELSE LET least == {m \in I : \A j \in I :
                          sort_compare(sort, 1, results[m].obj, results[j].obj)
                              # "Greater"}
             m == CHOOSE x \in least : \A y \in least : x <= y
         IN <<results[m]>> \o StableSorted(results, I \ {m}, sort)

\* C8: sorted path. The results are in the lexicographic order of the sort
\* list, and objects that compare equal on every sort key keep the order in
\* which the where-clauses yielded them.
C8_SortedAndStable ==
    (Ran /\ Q.sort # << >> /\ Unpaged(Q) /\ stopAt = 0) =>
        /\ \A i \in 1..Len(R.calls) : \A j \in (i + 1)..Len(R.calls) :
              sort_compare(Q.sort, 1, R.calls[i].obj, R.calls[j].obj) # "Greater"
        /\ CallObjects(R) =
              LET stable == StableSorted(R.results, 1..Len(R.results), Q.sort)
              IN [i \in 1..Len(stable) |-> stable[i].obj]

\* C9: unsorted ordering. Every result of where-clause i is emitted before
\* every result of where-clause j for i < j, and within one clause ids ascend
\* for Sort::Ascending and descend for Sort::Descending.
C9_UnsortedOrder ==
    (Ran /\ Q.sort = << >>) =>
        \A i \in 1..Len(R.calls) : \A j \in (i + 1)..Len(R.calls) :
            /\ R.calls[i].wc <= R.calls[j].wc
            /\ R.calls[i].wc = R.calls[j].wc =>
                  IF Q.where_clauses[R.calls[i].wc].sort = "Ascending"
                  THEN R.calls[i].obj.id < R.calls[j].obj.id
                  ELSE R.calls[i].obj.id > R.calls[j].obj.id

C9_Witness ==
    /\ Ran /\ Q.sort = << >> /\ Len(Q.where_clauses) = 2
    /\ \E i \in 1..Len(R.calls) : \E j \in (i + 1)..Len(R.calls) :
          R.calls[i].wc = 1 /\ R.calls[j].wc = 2
    /\ \E i \in 1..Len(R.calls) : \E j \in (i + 1)..Len(R.calls) :
          /\ R.calls[i].wc = R.calls[j].wc
          /\ Q.where_clauses[R.calls[i].wc].sort = "Descending"

\* C10: find_while terminal protocol. Once the user callback has returned
\* false it is not invoked again, in the sorted and the unsorted path, also
\* when further where-clauses remain: the call that returned false is the last.
C10_NoCallAfterFalse ==
    Ran =>
        /\ R.after = 0
        /\ stopAt > 0 => Len(R.calls) <= stopAt
        /\ R.refused => Len(R.calls) = stopAt

C10_Witness ==
    /\ Ran /\ R.refused /\ Q.sort = << >>
    /\ Len(Q.where_clauses) = 2
    /\ \E oid \in DOMAIN data :
          /\ id_matches(Q.where_clauses[2], oid)
          /\ \A i \in 1..Len(R.fetched) : R.fetched[i] # oid

\* the inputs with an empty where-clause list and nothing else set
PlainInputs ==
    {in \in QueryInputs : in.wcs = << >> /\ in.filter = << >> /\ in.sort = << >>
                          /\ in.distinct = << >> /\ in.offset = 0
                          /\ in.limit = USIZE_MAX /\ in.stop = 0}

\* C11: a query with an empty where-clause list behaves as the single id range
\* [MIN_ID, MAX_ID] ascending: with no filter it yields every object of the
\* collection exactly once, in ascending id order.
C11_EmptyWhereClauses ==
    [][\A in \in PlainInputs :
          FindWhile(in) =>
              /\ query'[1].where_clauses
                    = <<IdWhereClause(ColId, MIN_ID, MAX_ID, "Ascending")>>
              /\ CallObjects(run'[1])
                    = LET ids == Ascending(DOMAIN data)
                      IN [i \in 1..Len(ids) |-> data[ids[i]]]]_vars

C11_Witness ==
    /\ Ran /\ Unpaged(Q) /\ stopAt = 0 /\ Q.sort = << >> /\ Q.filter = << >>
    /\ Q.where_clauses = <<IdWhereClause(ColId, MIN_ID, MAX_ID, "Ascending")>>
    /\ Len(R.calls) >= 2
    /\ Len(R.calls) = Cardinality(DOMAIN data)

----------------------------------------------------------------------------
(* Watchers and the change set: src/src/watch/change_set.rs *)

MaxWatchers == 2   \* watcher ids range over 1..MaxWatchers
MaxChanges == 2    \* register_change calls in one write transaction

WatcherIds == 1..MaxWatchers
Collections == {ColId, ColId + 1}

\* the queries that are watched
WatchedQueries ==
    <<QueryBuilder_build(<<IdWhereClause(ColId, MIN_ID, MIN_ID, "Ascending")>>,
                         << >>, << >>, << >>, 0, USIZE_MAX),
      QueryBuilder_build(<< >>, <<IntBetween("a", 1, MaxVal)>>,
                         << >>, << >>, 0, USIZE_MAX)>>

\* what a watcher is registered for: a collection, an object of a collection,
\* or a query on the collection ColId; a watcher has one id and one kind
Target(kind, col, oid, q) == [kind |-> kind, col |-> col, oid |-> oid, q |-> q]
NoTarget == Target("none", 0, 0, 0)
Targets ==
    {Target("collection", c, 0, 0) : c \in Collections}
        \cup {Target("object", c, oid, 0) : c \in Collections, oid \in Oids}
        \cup {Target("query", ColId, 0, q) : q \in 1..Len(WatchedQueries)}

\* IsarCollectionWatchers of collection c: the watchers in registration order
CollectionWatchers(reg, c) ==
    LET of(t) == Ascending({w \in WatcherIds : reg[w] = t})
        qs == Ascending({w \in WatcherIds :
                            reg[w].kind = "query" /\ reg[w].col = c})
    IN [watchers |-> of(Target("collection", c, 0, 0)),
        object_watchers |-> [oid \in Oids |-> of(Target("object", c, oid, 0))],
        query_watchers |-> [i \in 1..Len(qs) |->
                               <<WatchedQueries[reg[qs[i]].q], qs[i]>>]]

\* IsarWatchers: the registry
IsarWatchers(reg) == [c \in Collections |-> CollectionWatchers(reg, c)]
Registries == {IsarWatchers(reg) : reg \in [WatcherIds -> Targets \cup {NoTarget}]}

\* changed_watchers: HashMap<usize, Arc<Watcher>>, as the number of entries
\* held for each watcher id (a map holds at most one)
EmptyMap == [w \in WatcherIds |-> 0]

\* variant of insert that keeps the entry already there and adds another
hashmap_push(map, id) == [map EXCEPT ![id] = @ + 1]

\* HashMap::insert
hashmap_insert(map, id) == [map EXCEPT ![id] = 1]

contains_key(map, id) == map[id] > 0

\* variant of the loop that stops after the first watcher
insert_first(list, i, map) ==
    IF i > Len(list) THEN map ELSE hashmap_insert(map, list[i])

\* the loops of register_change over the collection watchers and over the
\* object watchers: insert every watcher, break at one that was present
RECURSIVE insert_watchers(_, _, _)
insert_watchers(list, i, map) ==
    IF i > Len(list) THEN map
    ELSE IF contains_key(map, list[i]) THEN hashmap_insert(map, list[i])
    ELSE insert_watchers(list, i + 1, hashmap_insert(map, list[i]))

\* variant that looks at the where-clauses only
matches_wc(self, id, object) ==
    \E i \in 1..Len(self.where_clauses) : id_matches(self.where_clauses[i], id)

\* Query::matches_wc_filter
matches_wc_filter(self, id, object) ==
    LET wc_matches == \E i \in 1..Len(self.where_clauses) :
                          id_matches(self.where_clauses[i], id)
    IN IF ~wc_matches THEN FALSE
       ELSE IF self.filter # << >> THEN evaluate(self.filter[1], object)
       ELSE TRUE

\* the loop of register_change over the query watchers
RECURSIVE insert_query_watchers(_, _, _, _, _)
insert_query_watchers(qws, i, map, oid, object) ==
    IF i > Len(qws) THEN map
    ELSE insert_query_watchers(qws, i + 1,
             IF ~contains_key(map, qws[i][2])
                   /\ matches_wc_filter(qws[i][1], oid, object)
             THEN hashmap_insert(map, qws[i][2]) ELSE map,
             oid, object)

\* ChangeSet::register_change
register_change(ws, map, col_id, oid, object) ==
    insert_query_watchers(ws[col_id].query_watchers, 1,
        insert_watchers(ws[col_id].object_watchers[oid], 1,
            insert_watchers(ws[col_id].watchers, 1, map)),
        oid, object)

\* ChangeSet::notify_watchers: notify() on every value of the map
notify_watchers(map, counts) == [w \in WatcherIds |-> counts[w] + map[w]]

\* A write transaction: none begun, open, committed (the underlying commit
\* returned Ok), failed (it returned an error), aborted, notified.  changes is
\* history: the changes registered so far.
NoTxn == [state |-> "none", changed_watchers |-> EmptyMap, changes |-> {}]

\* variant in which the watchers are notified whatever the commit returned
can_notify_always(t) == t.state \in {"committed", "failed"}

\* IsarTxn::commit: the change set is notified after the underlying commit
\* returned Ok
can_notify(t) == t.state = "committed"

\* the changes put and delete register: (collection, oid, bytes)
Changes ==
    {<<c, oid, [id |-> oid, a |-> v, w |-> << >>]>> :
        c \in Collections, oid \in Oids, v \in Vals} \
    {ch \in Collections \X Oids \X Objects : ch[1] # ColId /\ ch[3].a # 0}

InitWatch ==
    /\ InitStore({<< >>})
    /\ IdleQuery
    /\ watchers \in Registries
    /\ txn = NoTxn
    /\ notified = EmptyMap
    /\ schema = << >>
    /\ built = << >>

WatchFrame == UNCHANGED <<storeVars, queryVars, watchers, schema, built>>

\* begin_txn(write = true): ChangeSet::new
BeginTxn ==
    /\ txn.state = "none"
    /\ txn' = [txn EXCEPT !.state = "open"]
    /\ UNCHANGED notified
    /\ WatchFrame

\* put or delete inside the transaction registers the change
RegisterChange(ch) ==
    /\ txn.state = "open"
    /\ Cardinality(txn.changes \cup {ch}) <= MaxChanges
    /\ txn' = [txn EXCEPT
                 !.changed_watchers = register_change(watchers, @, ch[1], ch[2], ch[3]),
                 !.changes = @ \cup {ch}]
    /\ UNCHANGED notified
    /\ WatchFrame

\* IsarTxn::commit, the underlying commit: it succeeds or returns an error
Commit(ok) ==
    /\ txn.state = "open"
    /\ txn' = [txn EXCEPT !.state = IF ok THEN "committed" ELSE "failed"]
    /\ UNCHANGED notified
    /\ WatchFrame

\* IsarTxn::commit, after the underlying commit: ChangeSet::notify_watchers
NotifyWatchers ==
    /\ can_notify(txn)
    /\ notified' = notify_watchers(txn.changed_watchers, notified)
    /\ txn' = [txn EXCEPT !.state = "notified"]
    /\ WatchFrame

\* IsarTxn::abort: the change set is dropped
Abort ==
    /\ txn.state = "open"
    /\ txn' = [txn EXCEPT !.state = "aborted"]
    /\ UNCHANGED notified
    /\ WatchFrame

NextWatch ==
    \/ BeginTxn
    \/ \E ch \in Changes : RegisterChange(ch)
    \/ \E ok \in BOOLEAN : Commit(ok)
    \/ NotifyWatchers
    \/ Abort

SpecWatch == InitWatch /\ [][NextWatch]_vars

----------------------------------------------------------------------------
(* Properties of the watchers *)

Unnotified == \A w \in WatcherIds : notified[w] = 0

\* C12: watcher atomicity. No watcher callback is invoked while the write
\* transaction is open; callbacks are invoked only after the underlying commit
\* has succeeded; an aborted transaction invokes none.
C12_NotifyAfterCommit ==
    /\ [][notified' # notified => txn.state = "committed"]_vars
    /\ [](txn.state \in {"none", "open", "failed", "aborted"} => Unnotified)

C12_Witness ==
    /\ txn.state = "notified"
    /\ \E w \in WatcherIds : notified[w] > 0

\* the registered changes a watcher list of collection c is about
ChangesOf(c) == {ch \in txn.changes : ch[1] = c}
ChangesOfObject(c, oid) == {ch \in txn.changes : ch[1] = c /\ ch[2] = oid}

\* C13: notification de-duplication. Whatever changes are registered in one
\* write transaction, notify_watchers invokes each watcher's callback at most
\* once, also when the watcher matches several changes.
C13_NotifiedAtMostOnce ==
    \A w \in WatcherIds : notified[w] <= 1 /\ txn.changed_watchers[w] <= 1

C13_Witness ==
    /\ txn.state = "notified"
    /\ \E c \in Collections :
          /\ Cardinality(ChangesOf(c)) >= 2
          /\ Len(watchers[c].watchers) >= 1
          /\ notified[watchers[c].watchers[1]] = 1

\* C14: completeness for collection and object watchers. The watchers to
\* notify contain every collection watcher of a collection that had a change
\* and every object watcher of a changed oid, and no collection watcher of an
\* unchanged collection and no object watcher of an unchanged oid.
C14_WatcherCompleteness ==
    txn.state # "none" =>
        \A c \in Collections :
            /\ \A i \in 1..Len(watchers[c].watchers) :
                  contains_key(txn.changed_watchers, watchers[c].watchers[i])
                      <=> ChangesOf(c) # {}
            /\ \A oid \in Oids : \A i \in 1..Len(watchers[c].object_watchers[oid]) :
                  contains_key(txn.changed_watchers,
                               watchers[c].object_watchers[oid][i])
                      <=> ChangesOfObject(c, oid) # {}

\* two watchers in one list and two changes that reach the list: the second
\* change breaks at the first watcher
C14_Witness ==
    /\ txn.state = "open"
    /\ \E c \in Collections : \E oid \in Oids :
          /\ Len(watchers[c].object_watchers[oid]) >= 2
          /\ Cardinality(ChangesOfObject(c, oid)) >= 2
          /\ \A i \in 1..Len(watchers[c].object_watchers[oid]) :
                contains_key(txn.changed_watchers,
                             watchers[c].object_watchers[oid][i])

\* the query returns the object when it is run, sort, distinct, offset and
\* limit set aside, on a collection that holds just this object
WouldReturn(q, object) ==
    execute_unsorted([q EXCEPT !.sort = << >>, !.distinct = << >>, !.offset = 0,
                               !.limit = USIZE_MAX],
                     [k \in {object.id} |-> object], NewExec(0)).calls # << >>

MaxProps == 3      \* properties in one collection schema
MaxIndexes == 2    \* indexes in one collection schema

\* Names are byte strings: sequences over a two-letter alphabet, "" included
PropertyNames == {<< >>, <<1>>, <<1, 1>>, <<1, 2>>, <<2>>}

\* str::lt: byte-wise lexicographic order, a proper prefix comes first
RECURSIVE str_lt(_, _)
str_lt(a, b) ==
    IF b = << >> THEN FALSE
    ELSE IF a = << >> THEN TRUE
    ELSE IF Head(a) # Head(b) THEN Head(a) < Head(b)
    ELSE str_lt(Tail(a), Tail(b))

\* DataType: two static types, String, and one other dynamic type
DataTypes == {"Int", "Long", "String", "Bytes"}

\* The ordinal of a data type (derived Ord of the enum)
ordinal(data_type) ==
    CASE data_type = "Int" -> 1
      [] data_type = "Long" -> 2
      [] data_type = "String" -> 3
      [] data_type = "Bytes" -> 4

\* DataType::is_dynamic
is_dynamic(data_type) == data_type \in {"String", "Bytes"}

\* Option<u16>
None == << >>
Some(x) == <<x>>

PropertySchema(name, data_type) == [name |-> name, data_type |-> data_type]

\* IndexSchema::new
IndexSchema(property_names, unique, hash_value) ==
    [id |-> None, property_names |-> property_names,
     unique |-> unique, hash_value |-> hash_value]

\* CollectionSchema::new
CollectionSchema_new(name) ==
    [id |-> None, name |-> name, properties |-> << >>, indexes |-> << >>]

\* illegal_arg(..)?: the call returns the error, the schema is as it was
illegal_arg(self) == [schema |-> self, err |-> "IllegalArg"]

\* add_property without the comparison with the previous property
add_property_unordered(self, name, data_type) ==
    IF name = << >> THEN illegal_arg(self)
    ELSE IF \E i \in 1..Len(self.properties) : self.properties[i].name = name
    THEN illegal_arg(self)
    ELSE [schema |-> [self EXCEPT !.properties =
                         Append(@, PropertySchema(name, data_type))],
          err |-> "Ok"]

\* CollectionSchema::add_property
add_property(self, name, data_type) ==
    IF name = << >> THEN illegal_arg(self)
    ELSE IF \E i \in 1..Len(self.properties) : self.properties[i].name = name
    THEN illegal_arg(self)
    ELSE IF /\ Len(self.properties) > 0
            /\ \/ /\ ordinal(data_type)
                       = ordinal(self.properties[Len(self.properties)].data_type)
                  /\ str_lt(name, self.properties[Len(self.properties)].name)
               \/ ordinal(data_type)
                    < ordinal(self.properties[Len(self.properties)].data_type)
    THEN illegal_arg(self)
    ELSE [schema |-> [self EXCEPT !.properties =
                         Append(@, PropertySchema(name, data_type))],
          err |-> "Ok"]

Min(x, y) == IF x <= y THEN x ELSE y

\* i.property_names[..min_len] == property_names[..min_len]
same_prefix(a, b) ==
    SubSeq(a, 1, Min(Len(a), Len(b))) = SubSeq(b, 1, Min(Len(a), Len(b)))

\* self.properties.iter().find(|p| p.name == name): Some(property) or None
find_property(properties, name) ==
    IF \E i \in 1..Len(properties) : properties[i].name = name
    THEN Some(properties[CHOOSE i \in 1..Len(properties) :
                  /\ properties[i].name = name
                  /\ \A j \in 1..(i - 1) : properties[j].name # name])
    ELSE None

\* The data types of the named properties, once all of them were found
found_types(properties, property_names) ==
    [k \in 1..Len(property_names) |->
        find_property(properties, property_names[k])[1].data_type]

\* The checks of add_index on the found properties, and the push
add_index_checked(self, property_names, unique, hash_value, types) ==
    IF \E k \in 1..Len(types) : is_dynamic(types[k]) /\ types[k] # "String"
    THEN illegal_arg(self)
    ELSE IF (~ \E k \in 1..Len(types) : types[k] = "String") /\ hash_value
    THEN illegal_arg(self)
    ELSE IF /\ ~hash_value
            /\ \E k \in 1..Len(types) : types[k] = "String" /\ k - 1 < Len(types) - 1
    THEN illegal_arg(self)
    ELSE [schema |-> [self EXCEPT !.indexes =
                         Append(@, IndexSchema(property_names, unique, hash_value))],
          err |-> "Ok"]

\* add_index that rejects only an index with the very same property list
add_index_equal_only(self, property_names, unique, hash_value) ==
    IF property_names = << >> THEN illegal_arg(self)
    ELSE IF Len(property_names) > 3 THEN illegal_arg(self)
    ELSE IF \E i \in 1..Len(self.indexes) :
               self.indexes[i].property_names = property_names
    THEN illegal_arg(self)
    ELSE IF \E k \in 1..Len(property_names) :
               find_property(self.properties, property_names[k]) = None
    THEN illegal_arg(self)
    ELSE add_index_checked(self, property_names, unique, hash_value,
                           found_types(self.properties, property_names))

\* CollectionSchema::add_index
add_index(self, property_names, unique, hash_value) ==
    IF property_names = << >> THEN illegal_arg(self)
    ELSE IF Len(property_names) > 3 THEN illegal_arg(self)
    ELSE IF \E i \in 1..Len(self.indexes) :
               same_prefix(self.indexes[i].property_names, property_names)
    THEN illegal_arg(self)
    ELSE IF \E k \in 1..Len(property_names) :
               find_property(self.properties, property_names[k]) = None
    THEN illegal_arg(self)
    ELSE add_index_checked(self, property_names, unique, hash_value,
                           found_types(self.properties, property_names))

\* PartialEq of IndexSchema: the property names and the two flags
index_eq(a, b) ==
    /\ a.property_names = b.property_names
    /\ a.unique = b.unique
    /\ a.hash_value = b.hash_value

\* Vec<IndexSchema> equality
indexes_eq(a, b) ==
    /\ Len(a) = Len(b)
    /\ \A i \in 1..Len(a) : index_eq(a[i], b[i])

\* existing_collections.iter().find(|c| c.name == self.name)
find_collection(existing_collections, name) ==
    IF \E i \in 1..Len(existing_collections) : existing_collections[i].name = name
    THEN Some(existing_collections[
             CHOOSE i \in 1..Len(existing_collections) :
                /\ existing_collections[i].name = name
                /\ \A j \in 1..(i - 1) : existing_collections[j].name # name])
    ELSE None

\* existing_collection.indexes.iter().find(|i| &index == i)
find_index(idxs, index_schema) ==
    IF \E i \in 1..Len(idxs) : index_eq(index_schema, idxs[i])
    THEN Some(idxs[CHOOSE i \in 1..Len(idxs) :
                     /\ index_eq(index_schema, idxs[i])
                     /\ \A j \in 1..(i - 1) : ~index_eq(index_schema, idxs[j])])
    ELSE None

\* can_reuse_index that does not look at the data types
can_reuse_any(self, existing_collection, index_schema) == TRUE

\* can_reuse_index: no property of the index_schema has another data type than in
\* the existing collection
can_reuse_index(self, existing_collection, index_schema) ==
    ~ \E k \in 1..Len(index_schema.property_names) :
         find_property(self.properties, index_schema.property_names[k])[1].data_type
            # find_property(existing_collection.properties,
                            index_schema.property_names[k])[1].data_type

\* The loop over self.indexes that takes the ids of equal existing indexes
reuse_index_ids(self, existing_collection) ==
    [self EXCEPT !.indexes =
        [i \in 1..Len(self.indexes) |->
            IF /\ find_index(existing_collection.indexes, self.indexes[i]) # None
               /\ can_reuse_index(self, existing_collection, self.indexes[i])
            THEN [self.indexes[i] EXCEPT !.id =
                     find_index(existing_collection.indexes, self.indexes[i])[1].id]
            ELSE self.indexes[i]]]

\* self.id = existing_collection.id when properties and indexes are equal
reuse_collection_id(self, existing_collection) ==
    IF /\ self.properties = existing_collection.properties
       /\ indexes_eq(self.indexes, existing_collection.indexes)
    THEN [self EXCEPT !.id = existing_collection.id]
    ELSE self

\* update_with_existing_collection up to the calls of find_id
reuse_ids(self, existing_collections) ==
    IF find_collection(existing_collections, self.name) = None THEN self
    ELSE reuse_collection_id(
            reuse_index_ids(self, find_collection(existing_collections, self.name)[1]),
            find_collection(existing_collections, self.name)[1])

\* The positions that still have no id, in the order find_id is called for
\* them: 0 for the collection, i for index_schema i
without_id(self) ==
    (IF self.id = None THEN <<0>> ELSE << >>)
      \o SelectSeq([i \in 1..Len(self.indexes) |-> i],
                   LAMBDA i : self.indexes[i].id = None)

\* Position of x in the sequence s
position(s, x) == CHOOSE k \in 1..Len(s) : s[k] = x

\* variant of find_id that returns an id whether or not it is in used_ids
find_ids_used(n, used_ids, ids) ==
    {fresh \in [1..n -> ids] :
        \A i \in 1..n, j \in 1..n : i # j => fresh[i] # fresh[j]}

\* find_id: the random draws that were not in used_ids, each inserted at once,
\* so the ids of one run differ from used_ids and from each other
find_ids(n, used_ids, ids) ==
    {fresh \in [1..n -> ids \ used_ids] :
        \A i \in 1..n, j \in 1..n : i # j => fresh[i] # fresh[j]}

\* The ids given by find_id, in call order, put in their places
set_ids(self, fresh) ==
    [self EXCEPT
        !.id = IF self.id = None THEN Some(fresh[1]) ELSE self.id,
        !.indexes =
            [i \in 1..Len(self.indexes) |->
                IF self.indexes[i].id = None
                THEN [self.indexes[i] EXCEPT !.id =
                         Some(fresh[position(without_id(self), i)])]
                ELSE self.indexes[i]]]

\* CollectionSchema::collect_ids
collect_ids(self, ids) ==
    ids \cup {self.id[k] : k \in 1..Len(self.id)}
        \cup {self.indexes[i].id[1] :
                 i \in {j \in 1..Len(self.indexes) : self.indexes[j].id # None}}

\* ---- the builder as a state machine ----

NoBuilt == [op |-> "none", args |-> << >>, err |-> "Ok", used_ids |-> {}]

\* Nothing but the schema builder runs
InitBuilder(schemas) ==
    /\ InitStore({<< >>})
    /\ IdleQuery
    /\ watchers = << >>
    /\ txn = << >>
    /\ notified = << >>
    /\ schema \in schemas
    /\ built = NoBuilt

SchemaFrame == UNCHANGED <<storeVars, queryVars, watchers, txn, notified>>

\* The builder call returned r
builder_returns(op, r) ==
    /\ Len(r.schema.properties) <= MaxProps
    /\ Len(r.schema.indexes) <= MaxIndexes
    /\ schema' = r.schema
    /\ built' = [op |-> op, args |-> << >>, err |-> r.err, used_ids |-> {}]
    /\ SchemaFrame

AddProperty(name, data_type) ==
    builder_returns("add_property", add_property(schema, name, data_type))

\* A new collection schema under add_property
InitProperties == InitBuilder({CollectionSchema_new("col")})

NextProperties ==
    \E name \in PropertyNames, data_type \in DataTypes :
        AddProperty(name, data_type)

SpecProperties == InitProperties /\ [][NextProperties]_vars

\* The schema after the add_property calls of a list, all of which succeed
RECURSIVE with_properties(_, _)
with_properties(self, props) ==
    IF props = << >> THEN self
    ELSE with_properties(add_property(self, props[1][1], props[1][2]).schema,
                         Tail(props))

\* Collections whose properties are in place: a String after an Int, two
\* Strings, a Bytes after an Int, and one without the property <<2>>
PropertyLists ==
    {<< <<(<<1>>), "Int">>, <<(<<2>>), "String">> >>,
     << <<(<<1>>), "String">>, <<(<<2>>), "String">> >>,
     << <<(<<1>>), "Int">>, <<(<<2>>), "Bytes">> >>,
     << <<(<<1>>), "Int">>, <<(<<1, 2>>), "Long">> >>}

BuiltCollections ==
    {with_properties(CollectionSchema_new("col"), props) : props \in PropertyLists}

\* Names an index may list
IndexPropertyNames == {<<1>>, <<2>>}

\* Lists of zero to three names, and one list of four
IndexNameLists ==
    UNION {[1..n -> IndexPropertyNames] : n \in 0..3}
       \cup {<<(<<1>>), (<<2>>), (<<2>>), (<<1>>)>>}

\* The arguments of add_index: single-property indexes are unique or not
IndexInputs ==
    {<<property_names, unique, hash_value>> :
        property_names \in IndexNameLists, unique \in BOOLEAN,
        hash_value \in BOOLEAN}
      \ {in \in IndexNameLists \X {TRUE} \X BOOLEAN : Len(in[1]) # 1}

AddIndex(property_names, unique, hash_value) ==
    builder_returns("add_index",
                    add_index(schema, property_names, unique, hash_value))

\* Collections with their properties in place under add_index
InitSchema == InitBuilder(BuiltCollections)

NextSchema ==
    \E in \in IndexInputs : AddIndex(in[1], in[2], in[3])

SpecSchema == InitSchema /\ [][NextSchema]_vars

\* The u16 ids: those of an existing collection and as many again, and one
Ids == 1..(2 * MaxIndexes + 3)

\* The schema after the add_index calls of a list, failed calls skipped
RECURSIVE with_indexes(_, _)
with_indexes(self, idxs) ==
    IF idxs = << >> THEN self
    ELSE with_indexes(add_index(self, idxs[1].property_names, idxs[1].unique,
                                idxs[1].hash_value).schema,
                      Tail(idxs))

\* A collection as the previous open stored it: every id set
stored(self, name) ==
    [self EXCEPT !.name = name, !.id = Some(1),
                 !.indexes = [i \in 1..Len(self.indexes) |->
                                 [self.indexes[i] EXCEPT !.id = Some(i + 1)]]]

\* Index lists of earlier versions of the collection: the same, without the
\* last index, with the first index's uniqueness changed, in reverse order
EarlierIndexes(idxs) ==
    {idxs, Reverse(idxs)}
      \cup (IF idxs = << >> THEN {}
            ELSE {SubSeq(idxs, 1, Len(idxs) - 1),
                  [idxs EXCEPT ![1].unique = ~idxs[1].unique]})

\* The collections a previous open may have stored, for the schema self:
\* none, the same under another name, or an earlier version of it with any
\* of the property lists
ExistingCollections(self) ==
    {<< >>, <<stored(self, "other")>>} \cup
    {<<stored(with_indexes(b, idxs), "col")>> :
        b \in BuiltCollections, idxs \in EarlierIndexes(self.indexes)}

\* The used ids the caller collected from the existing collections
UsedIds(existing_collections) ==
    IF existing_collections = << >> THEN {}
    ELSE collect_ids(existing_collections[1], {})

\* update_with_existing_collection gave the schema r and drew the ids fresh
update_returns(existing_collections, used_ids, r, fresh) ==
    /\ schema' = set_ids(r, fresh)
    /\ built' = [op |-> "update", args |-> <<existing_collections, used_ids>>,
                 err |-> "Ok",
                 used_ids |-> used_ids \cup {fresh[k] : k \in 1..Len(fresh)}]
    /\ SchemaFrame

\* The calls of find_id at the end of update_with_existing_collection
update_find_ids(existing_collections, used_ids, r) ==
    \E fresh \in find_ids(Len(without_id(r)), used_ids, Ids) :
        update_returns(existing_collections, used_ids, r, fresh)

\* The schema is opened once: afterwards it has its ids
UpdateWithExisting(existing_collections, used_ids) ==
    /\ schema.id = None
    /\ update_find_ids(existing_collections, used_ids,
                       reuse_ids(schema, existing_collections))

\* Index lists of the collections that are opened: none, one index, two
\* single-property indexes, composite indexes with and without hashing
IndexLists ==
    {<< >>,
     <<IndexSchema(<<(<<1>>)>>, FALSE, FALSE)>>,
     <<IndexSchema(<<(<<1>>)>>, TRUE, FALSE),
       IndexSchema(<<(<<2>>)>>, FALSE, FALSE)>>,
     <<IndexSchema(<<(<<1>>), (<<2>>)>>, FALSE, FALSE),
       IndexSchema(<<(<<2>>)>>, FALSE, TRUE)>>,
     <<IndexSchema(<<(<<2>>), (<<1>>)>>, FALSE, TRUE),
       IndexSchema(<<(<<1>>)>>, FALSE, FALSE)>>}

\* Finished collection schemas, not opened so far
InitOpen ==
    InitBuilder({with_indexes(b, idxs) : b \in BuiltCollections, idxs \in IndexLists})

NextOpen ==
    \E existing_collections \in ExistingCollections(schema) :
        UpdateWithExisting(existing_collections, UsedIds(existing_collections))

SpecOpen == InitOpen /\ [][NextOpen]_vars

\* ---- C16 ----

\* The property list is ordered: type ordinals do not decrease and, within
\* one type, names strictly increase
Ordered(properties) ==
    \A i \in 1..Len(properties), j \in 1..Len(properties) :
        i < j =>
            /\ ordinal(properties[i].data_type) <= ordinal(properties[j].data_type)
            /\ properties[i].data_type = properties[j].data_type
                  => str_lt(properties[i].name, properties[j].name)

WellFormedProperties(properties) ==
    /\ \A i \in 1..Len(properties) : properties[i].name # << >>
    /\ \A i \in 1..Len(properties), j \in 1..Len(properties) :
          i # j => properties[i].name # properties[j].name
    /\ Ordered(properties)

\* C16: after any sequence of add_property calls the property list has
\* non-empty, pairwise distinct names and is sorted by non-decreasing type
\* ordinal and strictly increasing name within a type; a call whose property
\* would break this returns an illegal-argument error and leaves the list
\* unchanged
C16_PropertiesOrdered ==
    /\ [](WellFormedProperties(schema.properties))
    /\ [][\A name \in PropertyNames, data_type \in DataTypes :
             AddProperty(name, data_type) =>
                IF WellFormedProperties(
                      Append(schema.properties, PropertySchema(name, data_type)))
                THEN built'.err = "Ok"
                     /\ schema'.properties
                          = Append(schema.properties, PropertySchema(name, data_type))
                ELSE built'.err = "IllegalArg"
                     /\ schema'.properties = schema.properties]_vars

\* Three properties of two types were added, and a call was refused
C16_Witness ==
    /\ Len(schema.properties) = 3
    /\ schema.properties[1].data_type = schema.properties[2].data_type
    /\ schema.properties[2].data_type # schema.properties[3].data_type
    /\ built.op = "add_property"
    /\ built.err = "IllegalArg"

\* ---- C17 ----

IsPrefix(a, b) == Len(a) <= Len(b) /\ SubSeq(b, 1, Len(a)) = a

Exists(properties, name) ==
    \E i \in 1..Len(properties) : properties[i].name = name

TypeOf(properties, name) ==
    (CHOOSE p \in {properties[i] : i \in 1..Len(properties)} : p.name = name).data_type

\* The conditions under which add_index is said to succeed
IndexAllowed(self, property_names, hash_value) ==
    /\ Len(property_names) \in 1..3
    /\ \A i \in 1..Len(self.indexes) :
          /\ ~IsPrefix(self.indexes[i].property_names, property_names)
          /\ ~IsPrefix(property_names, self.indexes[i].property_names)
    /\ \A k \in 1..Len(property_names) : Exists(self.properties, property_names[k])
    /\ \A k \in 1..Len(property_names) :
          is_dynamic(TypeOf(self.properties, property_names[k]))
             => TypeOf(self.properties, property_names[k]) = "String"
    /\ hash_value =>
          \E k \in 1..Len(property_names) :
              TypeOf(self.properties, property_names[k]) = "String"
    /\ ~hash_value =>
          \A k \in 1..Len(property_names) :
              TypeOf(self.properties, property_names[k]) = "String"
                 => k = Len(property_names)

PrefixFree(idxs) ==
    \A i \in 1..Len(idxs), j \in 1..Len(idxs) :
        i # j => ~IsPrefix(idxs[i].property_names, idxs[j].property_names)

\* C17: add_index succeeds iff it names 1 to 3 properties, is neither equal
\* to, a prefix of, nor prefixed by an existing index, every named property
\* exists, none is a dynamic type other than String, hash_value is set only
\* with a String property, and without hash_value a String property is last;
\* otherwise it returns an illegal-argument error and the index list is
\* unchanged, so no index's property list is ever a prefix of another's
C17_AddIndex ==
    /\ [](PrefixFree(schema.indexes))
    /\ [][\A in \in IndexInputs :
             AddIndex(in[1], in[2], in[3]) =>
                IF IndexAllowed(schema, in[1], in[3])
                THEN built'.err = "Ok"
                     /\ schema'.indexes
                          = Append(schema.indexes, IndexSchema(in[1], in[2], in[3]))
                ELSE built'.err = "IllegalArg"
                     /\ schema'.indexes = schema.indexes]_vars

\* Two indexes exist, one composite and hashed over a String that is not
\* last, and a further add_index was refused
C17_Witness ==
    /\ Len(schema.indexes) = 2
    /\ \E i \in 1..2 :
          /\ Len(schema.indexes[i].property_names) = 2
          /\ schema.indexes[i].hash_value
          /\ TypeOf(schema.properties, schema.indexes[i].property_names[1]) = "String"
    /\ built.op = "add_index"
    /\ built.err = "IllegalArg"

\* ---- C18 ----

\* The arguments and the result of the update_with_existing_collection call
Existing == find_collection(built'.args[1], schema.name)
UsedBefore == built'.args[2]
UsedAfter == built'.used_ids

\* Index i of the schema has an equal index in the existing collection
HasEqualIndex(i) ==
    /\ Existing # None
    /\ \E j \in 1..Len(Existing[1].indexes) :
          index_eq(schema.indexes[i], Existing[1].indexes[j])

EqualIndex(i) ==
    CHOOSE x \in {Existing[1].indexes[j] : j \in 1..Len(Existing[1].indexes)} :
        index_eq(schema.indexes[i], x)

\* No property of index i has another data type than in the existing collection
TypesUnchanged(i) ==
    \A k \in 1..Len(schema.indexes[i].property_names) :
        TypeOf(schema.properties, schema.indexes[i].property_names[k])
          = TypeOf(Existing[1].properties, schema.indexes[i].property_names[k])

StructurallyEqual ==
    /\ Existing # None
    /\ schema.properties = Existing[1].properties
    /\ indexes_eq(schema.indexes, Existing[1].indexes)

IsNew(id) == Len(id) = 1 /\ id[1] \notin UsedBefore /\ id[1] \in UsedAfter

\* C18: update_with_existing_collection gives the collection the id of the
\* same-named existing collection iff properties and indexes are structurally
\* equal; an index gets the id of the equal existing index iff none of its
\* properties changed data type; every collection or index not matched this
\* way gets an id that was not in the used-id set, and the id is added to it
C18_IdReuse ==
    [][built'.op = "update" =>
         /\ Existing # None =>
               (schema'.id = Existing[1].id <=> StructurallyEqual)
         /\ ~StructurallyEqual => IsNew(schema'.id)
         /\ Len(schema'.indexes) = Len(schema.indexes)
         /\ \A i \in 1..Len(schema.indexes) :
               /\ index_eq(schema'.indexes[i], schema.indexes[i])
               /\ HasEqualIndex(i) =>
                     (schema'.indexes[i].id = EqualIndex(i).id <=> TypesUnchanged(i))
               /\ ~(HasEqualIndex(i) /\ TypesUnchanged(i)) =>
                     IsNew(schema'.indexes[i].id)]_vars

\* A collection that differs from the stored one was opened: one index kept
\* its id, another index and the collection got new ids
C18_Witness ==
    /\ built.op = "update"
    /\ built.args[1] # << >>
    /\ built.args[1][1].name = "col"
    /\ Len(schema.indexes) = 2
    /\ schema.id[1] \notin built.args[2]
    /\ \E i \in 1..2, j \in 1..2 :
          /\ schema.indexes[i].id[1] \in built.args[2]
          /\ schema.indexes[j].id[1] \notin built.args[2]

\* ---------------------------------------------------------------------------
\* Between filters of the FFI (dart-ffi/src/filter.rs)
\* ---------------------------------------------------------------------------

Bits == 3    \* width of the Byte and Int types; Long has one bit more

\* u8, i32 and i64, scaled to Bits and Bits + 1 bits
NumTypes == {"Byte", "Int", "Long"}
MinOf(type) ==
    CASE type = "Byte" -> 0
      [] type = "Int" -> -(2 ^ (Bits - 1))
      [] type = "Long" -> -(2 ^ Bits)
MaxOf(type) ==
    CASE type = "Byte" -> 2 ^ Bits - 1
      [] type = "Int" -> 2 ^ (Bits - 1) - 1
      [] type = "Long" -> 2 ^ Bits - 1
ValuesOf(type) == MinOf(type)..MaxOf(type)

\* wrapping_add(1) in the width of the type
wrapping_add(type, value) ==
    Some(MinOf(type)
           + ((value + 1 - MinOf(type)) % (MaxOf(type) - MinOf(type) + 1)))

\* next_byte, next_int, next_long: value.checked_add(1)
checked_add(type, value) ==
    IF value + 1 > MaxOf(type) THEN None ELSE Some(value + 1)

\* prev_byte, prev_int, prev_long: value.checked_sub(1)
checked_sub(type, value) ==
    IF value - 1 < MinOf(type) THEN None ELSE Some(value - 1)

\* ByteBetween::filter, IntBetween::filter, LongBetween::filter
Between(type, prop, lower, upper) ==
    [kind |-> CASE type = "Byte" -> "ByteBetween"
                [] type = "Int" -> "IntBetween"
                [] type = "Long" -> "LongBetween",
     value |-> TRUE, prop |-> prop, lower |-> lower, upper |-> upper]

\* collection.get_properties().get(property_index): the collection has the
\* one property "a", of the type of the filter
get_property(property_index) ==
    IF property_index = 0 THEN Some("a") ELSE None

\* The body of isar_try! in filter_between_ffi!, with the adjusted bounds
between_filter(type, property, lower, upper) ==
    IF property # None
    THEN [err |-> "Ok",
          filter |-> IF lower # None /\ upper # None
                     THEN <<Between(type, property[1], lower[1], upper[1])>>
                     ELSE <<StaticFilter(FALSE)>>]
    ELSE [err |-> "IllegalArg", filter |-> << >>]

\* filter_between_ffi!: isar_filter_byte_between, isar_filter_int_between,
\* isar_filter_long_between
filter_between_ffi(type, lower, include_lower, upper, include_upper, property_index) ==
    between_filter(type, get_property(property_index),
                   IF ~include_lower THEN checked_add(type, lower) ELSE Some(lower),
                   IF ~include_upper THEN checked_sub(type, upper) ELSE Some(upper))

\* ---- the filter builder as a state machine ----

NoFilter == [op |-> "none", args |-> << >>, err |-> "Ok", filter |-> << >>]

InitFilter ==
    /\ InitStore({<< >>})
    /\ IdleQuery
    /\ watchers = << >>
    /\ txn = << >>
    /\ notified = << >>
    /\ schema = << >>
    /\ built = NoFilter

\* The FFI call with arguments args returned r; one filter is built in a
\* behaviour
filter_returns(args, r) ==
    /\ built = NoFilter
    /\ built' = [op |-> "filter_between", args |-> args, err |-> r.err,
                 filter |-> r.filter]
    /\ UNCHANGED <<storeVars, queryVars, watchers, txn, notified, schema>>

FilterBetween(type, lower, include_lower, upper, include_upper, property_index) ==
    filter_returns(<<type, lower, include_lower, upper, include_upper>>,
                   filter_between_ffi(type, lower, include_lower, upper,
                                      include_upper, property_index))

NextFilter ==
    \E type \in NumTypes, include_lower \in BOOLEAN, include_upper \in BOOLEAN,
       property_index \in {0, 1} :
        \E lower \in ValuesOf(type), upper \in ValuesOf(type) :
            FilterBetween(type, lower, include_lower, upper, include_upper,
                          property_index)

SpecFilter == InitFilter /\ [][NextFilter]_vars

\* ---- C19 ----

\* The values the bounds of a between call are said to accept
InBounds(v, lower, include_lower, upper, include_upper) ==
    /\ lower < v \/ (include_lower /\ v = lower)
    /\ v < upper \/ (include_upper /\ v = upper)

\* C19: the filter built for integer bounds (lower, include_lower, upper,
\* include_upper) accepts v iff (lower < v or (include_lower and v = lower))
\* and (v < upper or (include_upper and v = upper)); with an exclusive lower
\* bound at the type's maximum or an exclusive upper bound at its minimum the
\* filter is Static(false), it does not wrap around
C19_IntegerBetween ==
    (built.op = "filter_between" /\ built.err = "Ok") =>
        /\ \A v \in ValuesOf(built.args[1]) :
              evaluate(built.filter[1], [a |-> v])
                 <=> InBounds(v, built.args[2], built.args[3],
                              built.args[4], built.args[5])
        /\ \/ ~built.args[3] /\ built.args[2] = MaxOf(built.args[1])
           \/ ~built.args[5] /\ built.args[4] = MinOf(built.args[1])
           => built.filter[1] = StaticFilter(FALSE)

\* An exclusive lower bound at the maximum of Long gave Static(false)
C19_Witness ==
    /\ built.op = "filter_between"
    /\ built.err = "Ok"
    /\ built.args[1] = "Long"
    /\ ~built.args[3]
    /\ built.args[2] = MaxOf("Long")
    /\ built.args[4] = MaxOf("Long")
    /\ built.filter = <<StaticFilter(FALSE)>>

\* ---------------------------------------------------------------------------
\* isar_delete_all (dart-ffi/src/crud.rs)
\* ---------------------------------------------------------------------------

MaxOidsLen == 2    \* length of the oid list handed to isar_delete_all
MaxCount == 1      \* value of *count before the call: 0..MaxCount

\* The body of the loop of isar_delete_all: collection.delete for each oid of
\* the list in turn, *count.0 += 1 for each delete that returned true
RECURSIVE delete_all(_, _, _, _, _)
RECURSIVE delete_all_counted(_, _, _, _, _)
delete_all(ixs, cs, oids, i, count) ==
    IF i > Len(oids)
    THEN [data |-> cs.data, index |-> cs.index, count |-> count]
    ELSE delete_all_counted(ixs, delete_internal(ixs, cs, oids[i]), oids, i, count)
delete_all_counted(ixs, d, oids, i, count) ==
    delete_all(ixs, [data |-> d.data, index |-> d.index], oids, i + 1,
               IF d.existed THEN count + 1 ELSE count)

\* The state after isar_delete_all, d being what the loop left
delete_all_outcome(oids, d) ==
    /\ data' = d.data
    /\ index' = d.index
    /\ result' = [op |-> "delete_all", err |-> "Ok", val |-> d.count,
                  prior |-> << >>]
    /\ lastPut' = [k \in DOMAIN lastPut \ {oids[i] : i \in 1..Len(oids)} |->
                      lastPut[k]]
    /\ UNCHANGED <<indexes, oidCounter, issuedMax, putMax, query, stopAt, run>>
    /\ UNCHANGED otherVars

\* isar_delete_all(collection, txn, oids, oids_length, count), *count being
\* count before the call
DeleteAll(oids, count) ==
    delete_all_outcome(oids,
        delete_all(indexes, [data |-> data, index |-> index], oids, 1, count))

OidLists == UNION {[1..n -> Oids] : n \in 0..MaxOidsLen}
Counts == 0..MaxCount

\* Puts, and calls of isar_delete_all
InitCrud == InitStore(AutoSchemas) /\ IdleQuery /\ IdleOther

NextCrud ==
    \/ \E obj \in ObjectsFor(indexes, Oids) : Put(obj)
    \/ \E oids \in OidLists, count \in Counts : DeleteAll(oids, count)

SpecCrud == InitCrud /\ [][NextCrud]_vars

\* ---- C20 ----

\* C20: after isar_delete_all with a list of oids, count is the number of
\* rows deleted, that is the number of distinct oids of the list that existed
\* before the call, whatever count was before the call
C20_DeleteAllCount ==
    [][\A oids \in OidLists, count \in Counts :
          DeleteAll(oids, count) =>
             /\ result'.val = Cardinality(DOMAIN data \ DOMAIN data')
             /\ result'.val
                  = Cardinality({oids[i] : i \in 1..Len(oids)} \cap DOMAIN data)]_vars

\* ---------------------------------------------------------------------------
\* isar_json_import (dart-ffi/src/crud.rs)
\* ---------------------------------------------------------------------------

MaxImport == 2     \* elements of an imported JSON array

\* The bytes handed to isar_json_import: bytes that are no JSON document, or
\* the encoding of an array of objects of the collection
InvalidJson == [valid |-> FALSE, value |-> << >>]
JsonArray(objects) == [valid |-> TRUE, value |-> objects]
JsonInputs(ixs) ==
    {InvalidJson} \cup
    {JsonArray(objects) :
        objects \in UNION {[1..n -> ObjectsFor(ixs, Oids)] : n \in 0..MaxImport}}

\* serde_json::from_slice(bytes): Ok(value) or Err
from_slice(json) ==
    IF json.valid THEN [ok |-> TRUE, value |-> json.value]
    ELSE [ok |-> FALSE, value |-> << >>]

\* What a panic inside an extern "C" function does: the process is aborted,
\* or the unwinding leaves the function, whose behaviour is undefined
PanicOutcomes == {"Abort", "Unwind"}

\* IsarCollection::import_json: every element is put in turn, the first error
\* is returned
RECURSIVE import_json(_, _, _, _)
RECURSIVE import_json_put(_, _, _, _)
import_json(ixs, cs, objects, i) ==
    IF i > Len(objects)
    THEN [data |-> cs.data, index |-> cs.index, err |-> "Ok"]
    ELSE import_json_put(ixs, put_internal(ixs, cs, objects[i]), objects, i)
import_json_put(ixs, r, objects, i) ==
    IF r.err # "Ok" THEN r
    ELSE import_json(ixs, [data |-> r.data, index |-> r.index], objects, i + 1)

\* The largest id of a set of rows, or the counter when it is larger
RECURSIVE max_oid(_, _)
max_oid(counter, ids) ==
    IF ids = {} THEN counter
    ELSE max_oid(update_oid_counter(counter, CHOOSE x \in ids : TRUE),
                 ids \ {CHOOSE x \in ids : TRUE})

\* The state after isar_json_import returned err, r being what import_json left
json_import_returns(err, r) ==
    /\ data' = r.data
    /\ index' = r.index
    /\ result' = [op |-> "json_import", err |-> err, val |-> 0, prior |-> << >>]
    /\ lastPut' = [k \in DOMAIN lastPut \cup DOMAIN r.data |->
                      IF k \in DOMAIN r.data THEN r.data[k] ELSE lastPut[k]]
    /\ oidCounter' = max_oid(oidCounter, DOMAIN r.data)
    /\ putMax' = max_oid(putMax, DOMAIN r.data)
    /\ UNCHANGED <<indexes, issuedMax, query, stopAt, run>>
    /\ UNCHANGED otherVars

\* isar_try_txn! with the closure that calls collection.import_json
json_import_txn(r) == json_import_returns(r.err, r)

\* isar_json_import: serde_json::from_slice(bytes).unwrap(), then import_json
\* in the transaction. unwrap() panics on Err, before the transaction is used.
JsonImport(json) ==
    /\ result.err \notin PanicOutcomes
    /\ IF from_slice(json).ok
       THEN json_import_txn(import_json(indexes, [data |-> data, index |-> index],
                                        from_slice(json).value, 1))
       ELSE \E outcome \in PanicOutcomes :
               json_import_returns(outcome, [data |-> data, index |-> index])

\* Imports of JSON into a collection
InitImport == InitStore(Schemas) /\ IdleQuery /\ IdleOther

NextImport == \E json \in JsonInputs(indexes) : JsonImport(json)

SpecImport == InitImport /\ [][NextImport]_vars

\* ---- C21 ----

\* The error results an operation can return to its caller
ErrorResults == {"IllegalArg", "UniqueViolated", "JsonError"}

\* C21: isar_json_import with bytes that are not valid JSON returns an error
\* result to the caller and leaves the collection unchanged; it never panics
\* or aborts the process
C21_JsonImportError ==
    [][JsonImport(InvalidJson) =>
          /\ result'.err \in ErrorResults
          /\ data' = data
          /\ index' = index]_vars

\* ---- C22 ----

\* The number of outputs produced by the first n filter evaluations of the
\* run: the evaluated objects that the filter accepted
OutputsAfter(n) ==
    Cardinality({j \in 1..n : FilterAccepts(Q, data[R.evaluated[j]])})

\* C22: on the unsorted path with offset o and limit l the iteration stops as
\* soon as o + l outputs have been produced: no object is fetched and
\* evaluated against the filter after the (o+l)-th output
C22_StopsAtOffsetPlusLimit ==
    (Ran /\ Q.sort = << >> /\ Q.distinct = << >>) =>
        /\ \A i \in 1..Len(R.evaluated) :
              OutputsAfter(i - 1) < saturating_add(Q.limit, Q.offset)
        /\ \A i \in 1..Len(R.fetched) :
              \E k \in 1..Len(R.evaluated) :
                  /\ R.evaluated[k] = R.fetched[i]
                  /\ OutputsAfter(k - 1) < saturating_add(Q.limit, Q.offset)

\* ---- C23 ----

\* The objects of a buffer
ObjectsOf(results) == [i \in 1..Len(results) |-> results[i].obj]

\* The distinct keys of a sequence of objects
KeysOf(q, objects) == {DistinctKey(q, objects[i]) : i \in 1..Len(objects)}

\* The same query on the unsorted path
Unsorted(q) == execute_unsorted([q EXCEPT !.sort = << >>], data, NewExec(0))

\* C23: sorted path with distinct, offset and limit. The results are a sorted
\* arrangement of the buffer reduced to the first object of each distinct key,
\* with offset and limit applied after that; with offset 0 and no limit the
\* sorted and the unsorted path return the same number of objects and the
\* same set of distinct keys
C23_SortedDistinct ==
    (Ran /\ Q.sort # << >> /\ Q.distinct # << >> /\ stopAt = 0) =>
        /\ \E r \in sort_unstable_by(R.results, 1..Len(R.results), Q.sort) :
              CallObjects(R) =
                 DropTake(FirstOfEachKey(Q, ObjectsOf(r), 1, {}), Q.offset, Q.limit)
        /\ (Q.offset = 0 /\ Q.limit = USIZE_MAX) =>
              /\ Len(R.calls) = Len(Unsorted(Q).calls)
              /\ KeysOf(Q, CallObjects(R)) = KeysOf(Q, CallObjects(Unsorted(Q)))

\* A sorted query with distinct and offset 1 over two objects with the same
\* key: distinct left one object and the offset skipped it
C23_Witness ==
    /\ Ran
    /\ Q.sort # << >>
    /\ Q.distinct # << >>
    /\ stopAt = 0
    /\ Q.offset = 1
    /\ Len(R.results) = 2
    /\ DistinctKey(Q, R.results[1].obj) = DistinctKey(Q, R.results[2].obj)
    /\ R.results[1].obj # R.results[2].obj
    /\ R.calls = << >>

\* ---------------------------------------------------------------------------
\* Float and double between filters (dart-ffi/src/filter.rs)
\* ---------------------------------------------------------------------------

MaxFinite == 2     \* the finite f32 values are -MaxFinite..MaxFinite, in order

\* f32 and f64: the infinities, NaN, and finite values in their order, each a
\* pair of its class and its position among the finite values; f64 has one
\* more finite value at each end
FloatTypes == {"Float", "Double"}
Finite(v) == <<"Finite", v>>
INFINITY == <<"Infinity", 0>>
NEG_INFINITY == <<"NegInfinity", 0>>
NAN == <<"NaN", 0>>
LargestOf(type) == IF type = "Float" THEN MaxFinite ELSE MaxFinite + 1
\* f32::MIN, f64::MIN: the most negative finite value
F_MIN(type) == Finite(-LargestOf(type))
\* f32::MAX, f64::MAX: the largest finite value
F_MAX(type) == Finite(LargestOf(type))
FiniteOf(type) == {Finite(v) : v \in (-LargestOf(type))..LargestOf(type)}
FloatsOf(type) == FiniteOf(type) \cup {INFINITY, NEG_INFINITY, NAN}

is_nan(value) == value[1] = "NaN"

\* NextAfter::next_after on a finite value, towards +inf (up) or -inf
next_after(type, value, up) ==
    IF up
    THEN IF value = F_MAX(type) THEN INFINITY ELSE Finite(value[2] + 1)
    ELSE IF value = F_MIN(type) THEN NEG_INFINITY ELSE Finite(value[2] - 1)

\* next_float, next_double
next_float(type, value) ==
    IF value = INFINITY THEN None
    ELSE IF value = NEG_INFINITY THEN Some(F_MIN(type))
    ELSE IF is_nan(value) THEN Some(NEG_INFINITY)
    ELSE Some(next_after(type, value, TRUE))

\* prev_float, prev_double
prev_float(type, value) ==
    IF value = INFINITY THEN Some(F_MIN(type))
    ELSE IF value = NEG_INFINITY \/ is_nan(value) THEN None
    ELSE Some(next_after(type, value, FALSE))

\* FloatBetween::filter, DoubleBetween::filter
FloatBetween(type, prop, lower, upper) ==
    [kind |-> IF type = "Float" THEN "FloatBetween" ELSE "DoubleBetween",
     prop |-> prop, lower |-> lower, upper |-> upper]

\* The body of isar_try! in filter_between_ffi!, with the adjusted bounds
float_between_filter(type, property, lower, upper) ==
    IF property # None
    THEN [err |-> "Ok",
          filter |-> IF lower # None /\ upper # None
                     THEN <<FloatBetween(type, property[1], lower[1], upper[1])>>
                     ELSE <<StaticFilter(FALSE)>>]
    ELSE [err |-> "IllegalArg", filter |-> << >>]

\* filter_between_ffi!: isar_filter_float_between, isar_filter_double_between
float_between_ffi(type, lower, include_lower, upper, include_upper, property_index) ==
    float_between_filter(type, get_property(property_index),
                         IF ~include_lower THEN next_float(type, lower) ELSE Some(lower),
                         IF ~include_upper THEN prev_float(type, upper) ELSE Some(upper))

\* The position of a value that is not NaN in the order -inf < finite < +inf
rank(type, value) ==
    CASE value[1] = "NegInfinity" -> -LargestOf(type) - 1
      [] value[1] = "Finite" -> value[2]
      [] value[1] = "Infinity" -> LargestOf(type) + 1

\* a <= b on f32 and f64: false when one of them is NaN
float_le(type, a, b) ==
    ~is_nan(a) /\ ~is_nan(b) /\ rank(type, a) <= rank(type, b)

\* Filter::evaluate of Static, FloatBetween and DoubleBetween on a value
evaluate_float(type, filter, value) ==
    IF filter.kind = "Static" THEN filter.value
    ELSE float_le(type, filter.lower, value) /\ float_le(type, value, filter.upper)

\* The FFI call with arguments args returned r; one filter is built in a
\* behaviour
float_filter_returns(args, r) ==
    /\ built = NoFilter
    /\ built' = [op |-> "float_between", args |-> args, err |-> r.err,
                 filter |-> r.filter]
    /\ UNCHANGED <<storeVars, queryVars, watchers, txn, notified, schema>>

FloatFilterBetween(type, lower, include_lower, upper, include_upper, property_index) ==
    float_filter_returns(<<type, lower, include_lower, upper, include_upper>>,
                         float_between_ffi(type, lower, include_lower, upper,
                                           include_upper, property_index))

NextFloat ==
    \E type \in FloatTypes, include_lower \in BOOLEAN, include_upper \in BOOLEAN,
       property_index \in {0, 1} :
        \E lower \in FloatsOf(type), upper \in FloatsOf(type) :
            FloatFilterBetween(type, lower, include_lower, upper, include_upper,
                               property_index)

SpecFloat == InitFilter /\ [][NextFloat]_vars

\* ---- C24 ----

\* The arguments of the call that built the filter
FType == built.args[1]
FLower == built.args[2]
FUpper == built.args[4]
Built == built.op = "float_between" /\ built.err = "Ok"

NotNaN(type) == FloatsOf(type) \ {NAN}

\* The least value above x and the greatest value below x, if there is one,
\* on the order -inf < finite values < +inf
LeastAbove(type, x) ==
    IF \E y \in NotNaN(type) : rank(type, y) > rank(type, x)
    THEN Some(CHOOSE y \in NotNaN(type) :
                 /\ rank(type, y) > rank(type, x)
                 /\ \A z \in NotNaN(type) :
                       rank(type, z) > rank(type, x) => rank(type, y) <= rank(type, z))
    ELSE None
GreatestBelow(type, x) ==
    IF \E y \in NotNaN(type) : rank(type, y) < rank(type, x)
    THEN Some(CHOOSE y \in NotNaN(type) :
                 /\ rank(type, y) < rank(type, x)
                 /\ \A z \in NotNaN(type) :
                       rank(type, z) < rank(type, x) => rank(type, z) <= rank(type, y))
    ELSE None

\* C24: on the order -inf < finite values < +inf, next(x) is the least value
\* strictly greater than x and prev(x) the greatest value strictly less than
\* x (next(-inf) the most negative finite value, prev(+inf) the largest finite
\* value, next(+inf) absent, prev(next(x)) = x for finite x below the
\* maximum); hence an exclusive upper bound of +inf admits every finite value
C24_FloatAdjacency ==
    Built =>
        /\ ~is_nan(FLower) =>
              /\ next_float(FType, FLower) = LeastAbove(FType, FLower)
              /\ prev_float(FType, FLower) = GreatestBelow(FType, FLower)
              /\ (FLower[1] = "Finite" /\ FLower # F_MAX(FType)) =>
                    prev_float(FType, next_float(FType, FLower)[1]) = Some(FLower)
        /\ (FUpper = INFINITY /\ ~built.args[5]
              /\ FLower = NEG_INFINITY /\ built.args[3]) =>
              \A v \in FiniteOf(FType) : evaluate_float(FType, built.filter[1], v)

\* ---- C25 ----

\* C25: next and prev agree with the order in which NaN is greater than every
\* other value: an exclusive lower bound of NaN has no successor and the
\* filter is Static(false); an exclusive upper bound of NaN gives a bound that
\* admits every value that is not NaN
C25_NaNOrdering ==
    Built =>
        /\ (is_nan(FLower) /\ ~built.args[3]) =>
              /\ next_float(FType, FLower) = None
              /\ built.filter[1].kind = "Static"
              /\ ~built.filter[1].value
        /\ (is_nan(FUpper) /\ ~built.args[5]
              /\ FLower = NEG_INFINITY /\ built.args[3]) =>
              \A v \in NotNaN(FType) : evaluate_float(FType, built.filter[1], v)

\* ---------------------------------------------------------------------------
\* IdWhereClause::iter on a data db shared by several collections
\* (query/id_where_clause.rs)
\* ---------------------------------------------------------------------------

\* ids (key prefixes) of the collections stored next to the collection ColId,
\* one below it and one above it
LowerColId == ColId - 1
UpperColId == ColId + 1
Prefixes == {LowerColId, ColId, UpperColId}

\* IntKey::new(prefix, id); get_id is the second component
IntKey(prefix, id) == <<prefix, id>>
get_id(key) == key[2]

\* the order of the encoded keys: by prefix, then by id
key_le(a, b) == a[1] < b[1] \/ (a[1] = b[1] /\ a[2] <= b[2])

\* the keys of a set in ascending order
RECURSIVE AscendingKeys(_)
AscendingKeys(S) ==
    IF S = {} THEN << >>
    ELSE LET m == CHOOSE x \in S : \A y \in S : key_le(x, y)
         IN <<m>> \o AscendingKeys(S \ {m})

\* Cursor::iter_between on the data db: the keys in [lower, upper], ascending
\* or descending
cursor_iter_between(db, lower, upper, ascending) ==
    LET keys == AscendingKeys({k \in DOMAIN db : key_le(lower, k) /\ key_le(k, upper)})
    IN IF ascending THEN keys ELSE Reverse(keys)

\* The state of one IdWhereClause::iter call.  yielded: the keys handed to
\* the callback; visited: the keys the cursor handed to the closure;
\* result_ids: None, or Some of the set of seen ids; stop: the callback
\* returns false at its stop-th invocation (never if 0)
NewIter(result_ids, stop) ==
    [yielded |-> << >>, visited |-> << >>, result_ids |-> result_ids,
     before |-> result_ids, stop |-> stop, cont |-> TRUE]

\* variant whose closure hands every row to the callback, seen or not
RECURSIVE id_iter_keep_seen(_, _, _)
id_iter_keep_seen(keys, k, it) ==
    IF k > Len(keys) THEN it
    ELSE LET id == keys[k]
             it1 == [it EXCEPT !.visited = Append(@, id)]
             it2 == IF it.result_ids # None
                    THEN [it1 EXCEPT !.result_ids = Some(@[1] \cup {get_id(id)})]
                    ELSE it1
             it3 == [it2 EXCEPT !.yielded = Append(@, id)]
         IN IF Len(it3.yielded) = it.stop THEN [it3 EXCEPT !.cont = FALSE]
            ELSE id_iter_keep_seen(keys, k + 1, it3)

\* the closure IdWhereClause::iter hands to iter_between, run on the keys of
\* the range: a row whose id result_ids already holds is skipped, any other id
\* is inserted and the row handed to the callback; the iteration ends when the
\* callback returns false
RECURSIVE id_iter_from(_, _, _)
id_iter_from(keys, k, it) ==
    IF k > Len(keys) THEN it
    ELSE LET id == keys[k]
             it1 == [it EXCEPT !.visited = Append(@, id)]
         IN IF it.result_ids # None /\ get_id(id) \in it.result_ids[1]
            THEN id_iter_from(keys, k + 1, it1)
            ELSE LET it2 == IF it.result_ids # None
                            THEN [it1 EXCEPT !.result_ids = Some(@[1] \cup {get_id(id)})]
                            ELSE it1
                     it3 == [it2 EXCEPT !.yielded = Append(@, id)]
                 IN IF Len(it3.yielded) = it.stop THEN [it3 EXCEPT !.cont = FALSE]
                    ELSE id_iter_from(keys, k + 1, it3)

\* IdWhereClause::iter
IdWhereClause_iter(self, db, result_ids, stop) ==
    id_iter_from(cursor_iter_between(db, IntKey(self.prefix, self.lower),
                                     IntKey(self.prefix, self.upper),
                                     self.sort = "Ascending"),
                 1, NewIter(result_ids, stop))

\* the data dbs: any rows of the three collections with ids in Oids
SharedData ==
    {[k \in S |-> [id |-> get_id(k), a |-> 0, w |-> << >>]] : S \in SUBSET (Prefixes \X Oids)}

InitIdWhere ==
    /\ indexes = << >>
    /\ data \in SharedData
    /\ index = {}
    /\ oidCounter = MIN_ID - 1
    /\ result = NoResult
    /\ lastPut = << >>
    /\ issuedMax = MIN_ID - 1
    /\ putMax = MIN_ID - 1
    /\ IdleQuery
    /\ IdleOther

\* one call of iter per behaviour, on a where-clause of the collection ColId
IdIter(clause, result_ids, stop) ==
    /\ run = << >>
    /\ query' = <<clause>>
    /\ stopAt' = stop
    /\ run' = <<IdWhereClause_iter(clause, data, result_ids, stop)>>
    /\ UNCHANGED storeVars
    /\ UNCHANGED otherVars

ResultIds == {None} \cup {Some(S) : S \in SUBSET Oids}

NextIdWhere ==
    \E clause \in Clauses, result_ids \in ResultIds, stop \in 0..1 :
        IdIter(clause, result_ids, stop)

SpecIdWhere == InitIdWhere /\ [][NextIdWhere]_vars

\* ---- C26 ----

\* the ids of the keys of a sequence, and the rows of the collection of the
\* clause whose id is within its bounds
IdsOf(keys) == {get_id(keys[i]) : i \in 1..Len(keys)}
RowsInRange(clause) ==
    {k \in DOMAIN data : k[1] = clause.prefix /\ clause.lower <= k[2] /\ k[2] <= clause.upper}
NoKeyTwice(keys) == \A i, j \in 1..Len(keys) : keys[i] = keys[j] => i = j

\* C26: IdWhereClause(col, lower, upper, sort).iter yields exactly the rows of
\* collection col with lower <= id <= upper, each once, and no row of another
\* collection; it yields nothing when upper < lower; id_matches is true of
\* every id iter yields, and of a stored row of col exactly if iter without a
\* set of seen ids yields it; with a set of seen ids, the rows whose
\* id is in the set are skipped and every other visited id is added to it
C26_IdWhereClauseRange ==
    (Ran /\ stopAt = 0) =>
        LET keys == {R.yielded[i] : i \in 1..Len(R.yielded)}
        IN /\ NoKeyTwice(R.yielded)
           /\ \A k \in keys : k[1] = Q.prefix /\ k \in DOMAIN data
           /\ R.before = None => keys = RowsInRange(Q)
           /\ is_empty(Q) => R.yielded = << >>
           /\ \A k \in keys : id_matches(Q, k[2])
           /\ R.before = None =>
                 \A k \in DOMAIN data :
                     k[1] = Q.prefix => (id_matches(Q, k[2]) <=> k \in keys)
           /\ R.before # None =>
                 /\ keys = {k \in RowsInRange(Q) : k[2] \notin R.before[1]}
                 /\ R.result_ids[1] = R.before[1] \cup IdsOf(R.visited)

\* a call with a set of seen ids that skips a row of the range and yields
\* another, with rows of both other collections in the db
C26_Witness ==
    /\ Ran /\ stopAt = 0 /\ R.before # None
    /\ \E k \in RowsInRange(Q) : k[2] \in R.before[1]
    /\ R.yielded # << >>
    /\ \E k \in DOMAIN data : k[1] = LowerColId
    /\ \E k \in DOMAIN data : k[1] = UpperColId

\* ---------------------------------------------------------------------------
\* Failed puts and delete_for_object (index/mod.rs), on Spec
\* ---------------------------------------------------------------------------

\* ---- C27 ----

\* C27: a failed put is all-or-nothing. When a put fails with UniqueViolated
\* (also under a Words index, where an earlier key of the object was inserted
\* before a later one collided), the index db holds no entry of the failed
\* object that it did not hold before the put, and the data db is as it was
C27_FailedPutAllOrNothing ==
    [][\A obj \in ObjectsFor(indexes, Oids) :
          (Put(obj) /\ result'.err = "UniqueViolated") =>
              /\ \A e \in index' \ index : e[2] # data_key(result'.val)
              /\ data' = data]_vars

\* ---- C28 ----

\* the entries (k, data_key(oid)) with k a key create_keys generates from the
\* bytes, over the indexes of the collection
GeneratedEntries(oid, object) ==
    {<<k, data_key(oid)>> : k \in UNION {KeySet(indexes[i], object) : i \in 1..Len(indexes)}}

\* C28: delete_for_object is value-addressed and framed. Deleting a stored
\* row removes exactly the entries (k, data_key(oid)) with k in
\* create_keys(bytes): an entry under the same key owned by another oid and
\* every entry under another key stay, and a generated key that has no entry
\* is skipped without error
C28_DeleteForObject ==
    [][\A oid \in Oids :
          (Delete(oid) /\ oid \in DOMAIN data) =>
              /\ index' = index \ GeneratedEntries(oid, data[oid])
              /\ \A e \in index : e[2] # data_key(oid) => e \in index'
              /\ result'.err = "Ok"]_vars

\* a row was deleted whose key is still owned by another oid
C28_Witness ==
    /\ result.op = "delete" /\ result.prior # << >>
    /\ \E e \in index :
          /\ e[2] # data_key(result.val)
          /\ <<e[1], data_key(result.val)>> \in GeneratedEntries(result.val, result.prior[1])

\* ---------------------------------------------------------------------------
\* The guard on the watchers registry held by the change set
\* (watch/change_set.rs)
\* ---------------------------------------------------------------------------

\* A write transaction whose ChangeSet owns the MutexGuard of the registry.
\* guard: the ChangeSet is alive and holds the mutex; done: the watchers the
\* loop of notify_watchers has called notify() on
NoGuardedTxn ==
    [state |-> "none", changed_watchers |-> EmptyMap, changes |-> {},
     guard |-> FALSE, done |-> {}]

\* ChangeSet::new(watchers): the change set takes the guard it is given
ChangeSet_new(t) == [t EXCEPT !.state = "open", !.guard = TRUE]

\* drop of the ChangeSet: its field watchers, the MutexGuard, is dropped with
\* it and the mutex unlocked
ChangeSet_drop(t, state) == [t EXCEPT !.state = state, !.guard = FALSE]

\* cancellation removes the watcher from every list of the registry
remove_watcher(ws, w) ==
    [c \in Collections |->
        [watchers |-> SelectSeq(ws[c].watchers, LAMBDA x : x # w),
         object_watchers |->
             [oid \in Oids |-> SelectSeq(ws[c].object_watchers[oid], LAMBDA x : x # w)],
         query_watchers |-> SelectSeq(ws[c].query_watchers, LAMBDA x : x[2] # w)]]

InitGuard ==
    /\ InitStore({<< >>})
    /\ IdleQuery
    /\ watchers \in Registries
    /\ txn = NoGuardedTxn
    /\ notified = EmptyMap
    /\ schema = << >>
    /\ built = << >>

\* begin_txn(write = true): the registry mutex is locked and handed to
\* ChangeSet::new
BeginWrite ==
    /\ txn.state = "none"
    /\ ~txn.guard
    /\ txn' = ChangeSet_new(txn)
    /\ UNCHANGED notified
    /\ WatchFrame

\* IsarTxn::commit, the underlying commit: on success notify_watchers is
\* called next, on an error the change set is dropped
CommitWrite(ok) ==
    /\ txn.state = "open"
    /\ txn' = IF ok THEN [txn EXCEPT !.state = "committed"]
              ELSE ChangeSet_drop(txn, "failed")
    /\ UNCHANGED notified
    /\ WatchFrame

\* ChangeSet::notify_watchers(self), one turn of its loop: watcher.notify()
\* on a value of changed_watchers; self, with its guard, lives to the end of
\* the function
Notify(w) ==
    /\ txn.state = "committed"
    /\ txn.changed_watchers[w] > 0 /\ w \notin txn.done
    /\ notified' = [notified EXCEPT ![w] = @ + 1]
    /\ txn' = [txn EXCEPT !.done = @ \cup {w}]
    /\ WatchFrame

\* ChangeSet::notify_watchers(self), the end of the function: self is dropped
NotifyReturn ==
    /\ txn.state = "committed"
    /\ \A w \in WatcherIds : txn.changed_watchers[w] > 0 => w \in txn.done
    /\ txn' = ChangeSet_drop(txn, "notified")
    /\ UNCHANGED notified
    /\ WatchFrame

\* IsarTxn::abort: the change set is dropped
AbortWrite ==
    /\ txn.state = "open"
    /\ txn' = ChangeSet_drop(txn, "aborted")
    /\ UNCHANGED notified
    /\ WatchFrame

\* a watcher is cancelled, by a callback or by another thread: the registry
\* mutex is locked, which blocks while the change set holds it
CancelWatcher(w) ==
    /\ ~txn.guard
    /\ remove_watcher(watchers, w) # watchers
    /\ watchers' = remove_watcher(watchers, w)
    /\ UNCHANGED <<storeVars, queryVars, txn, notified, schema, built>>

NextGuard ==
    \/ BeginWrite
    \/ \E ch \in Changes : RegisterChange(ch)
    \/ \E ok \in BOOLEAN : CommitWrite(ok)
    \/ \E w \in WatcherIds : Notify(w)
    \/ NotifyReturn
    \/ AbortWrite
    \/ \E w \in WatcherIds : CancelWatcher(w)

SpecGuard == InitGuard /\ [][NextGuard]_vars

\* ---- C29 ----

\* C29: the change set's guard on the mutex of the watchers registry is
\* released before the callbacks are invoked (commit first, then notify): no
\* watcher is notified while the guard is held, so that a callback or another
\* thread can register or cancel a watcher without blocking
C29_GuardReleasedBeforeNotify ==
    [][notified' # notified => ~txn.guard]_vars

\* ---------------------------------------------------------------------------
\* A schema of two collections opened over an existing schema
\* (schema/collection_schema.rs)
\* ---------------------------------------------------------------------------

\* The u16 ids: as many as two stored collections hold, so that a schema can
\* use all of them
SchemaIds == 1..(2 * MaxIndexes + 2)

\* A collection as a previous open stored it, with the ids first, first + 1, ..
stored_from(self, name, first) ==
    [self EXCEPT !.name = name, !.id = Some(first),
                 !.indexes = [i \in 1..Len(self.indexes) |->
                                 [self.indexes[i] EXCEPT !.id = Some(first + i)]]]

\* the loop of collect_ids over the indexes: ok is false once an
\* assert!(ids.insert(id)) has failed
RECURSIVE collect_index_ids(_, _, _)
collect_index_ids(idxs, i, ids) ==
    IF i > Len(idxs) THEN [ids |-> ids, ok |-> TRUE]
    ELSE IF idxs[i].id = None THEN collect_index_ids(idxs, i + 1, ids)
    ELSE IF idxs[i].id[1] \in ids THEN [ids |-> ids, ok |-> FALSE]
    ELSE collect_index_ids(idxs, i + 1, ids \cup {idxs[i].id[1]})

\* CollectionSchema::collect_ids with its assertion
collect_ids_asserting(self, ids) ==
    collect_index_ids(self.indexes, 1, ids \cup {self.id[k] : k \in 1..Len(self.id)})

\* collect_ids of the collections of a schema in turn, into one set
RECURSIVE collect_all_ids(_, _, _)
collect_all_ids(collections, k, ids) ==
    IF k > Len(collections) THEN [ids |-> ids, ok |-> TRUE]
    ELSE LET r == collect_ids_asserting(collections[k], ids)
         IN IF ~r.ok THEN r ELSE collect_all_ids(collections, k + 1, r.ids)

\* The schemas that are opened: the collection "col" with any property list
\* and index list, and the collection "other" without index or with two
OpenedCollections ==
    {with_indexes(b, idxs) : b \in BuiltCollections, idxs \in IndexLists}
OtherCollections ==
    {[c EXCEPT !.name = "other"] :
        c \in {d \in OpenedCollections :
                  d.properties[2].data_type = "String" /\ Len(d.indexes) # 1
                     /\ d.properties[1].data_type = "Int"
                     /\ \A i \in 1..Len(d.indexes) : ~d.indexes[i].hash_value}}
NewSchemas == {<<a, b>> : a \in OpenedCollections, b \in OtherCollections}

\* The schemas a previous open may have stored for the schema cs: none, the
\* same collections, an earlier version of "col" next to "other", "other"
\* alone; the ids of an existing schema are pairwise distinct
ExistingSchemas(cs) ==
    {<< >>,
     <<stored_from(cs[1], "col", 1), stored_from(cs[2], "other", MaxIndexes + 2)>>,
     <<stored_from(cs[2], "other", 1)>>} \cup
    {<<stored_from(cs[2], "other", 1),
       stored_from(with_indexes(b, idxs), "col", MaxIndexes + 2)>> :
        b \in BuiltCollections, idxs \in EarlierIndexes(cs[1].indexes)}

\* used_ids as the caller collects it: every id of the existing schema
AllUsedIds(existing_collections) == collect_all_ids(existing_collections, 1, {}).ids

InitOpenAll ==
    /\ InitStore({<< >>})
    /\ IdleQuery
    /\ watchers = << >>
    /\ txn = << >>
    /\ notified = << >>
    /\ schema \in NewSchemas
    /\ \E existing_collections \in ExistingSchemas(schema) :
          built = [op |-> "none", args |-> existing_collections, err |-> "Ok",
                   used_ids |-> AllUsedIds(existing_collections)]

\* update_with_existing_collection on collection k of the schema, with the
\* used ids of the calls before it
UpdateCollection(k) ==
    /\ built.op \in {"none", "update"}
    /\ schema[k].id = None
    /\ \A j \in 1..(k - 1) : schema[j].id # None
    /\ \E fresh \in find_ids(Len(without_id(reuse_ids(schema[k], built.args))),
                             built.used_ids, SchemaIds) :
          /\ schema' = [schema EXCEPT ![k] = set_ids(reuse_ids(schema[k], built.args), fresh)]
          /\ built' = [built EXCEPT !.op = "update",
                          !.used_ids = @ \cup {fresh[i] : i \in 1..Len(fresh)}]
    /\ SchemaFrame

\* collect_ids of every collection, once all have their ids: a failed
\* assertion panics
CollectIds ==
    /\ built.op = "update"
    /\ \A k \in 1..Len(schema) : schema[k].id # None
    /\ built' = [built EXCEPT !.op = "collect_ids",
                    !.err = IF collect_all_ids(schema, 1, {}).ok THEN "Ok" ELSE "Panic"]
    /\ UNCHANGED schema
    /\ SchemaFrame

NextOpenAll ==
    \/ \E k \in 1..2 : UpdateCollection(k)
    \/ CollectIds

SpecOpenAll == InitOpenAll /\ [][NextOpenAll]_vars

\* ---- C30 ----

\* the ids of the collections and indexes of a schema, one entry per
\* collection and index that has an id
IdEntries(collections) ==
    {<<k, 0>> : k \in {j \in 1..Len(collections) : collections[j].id # None}}
      \cup UNION {{<<k, i>> : i \in {j \in 1..Len(collections[k].indexes) :
                                          collections[k].indexes[j].id # None}} :
                   k \in 1..Len(collections)}
IdOf(collections, e) ==
    IF e[2] = 0 THEN collections[e[1]].id[1] ELSE collections[e[1]].indexes[e[2]].id[1]
PairwiseDistinct(collections) ==
    \A e1 \in IdEntries(collections), e2 \in IdEntries(collections) :
        e1 # e2 => IdOf(collections, e1) # IdOf(collections, e2)

\* the ids find_id returned in the step that updated collection k
FoundIds(k) ==
    {IdOf(<<schema'[k]>>, <<1, p>>) : p \in {without_id(reuse_ids(schema[k], built.args))[i] :
                 i \in 1..Len(without_id(reuse_ids(schema[k], built.args)))}}

\* C30: ids are unique across the schema. With used_ids holding every id of
\* the existing schema, after update_with_existing_collection has run for the
\* collections all collection and index ids are pairwise distinct, and
\* collect_ids does not trip its assertion; find_id returns only ids that were
\* not in used_ids, and does not return when every id is used
C30_IdUniqueness ==
    /\ [](PairwiseDistinct(schema) /\ built.err # "Panic")
    /\ [][\A k \in 1..2 : UpdateCollection(k) =>
             /\ FoundIds(k) \cap built.used_ids = {}
             /\ built.used_ids = SchemaIds => FoundIds(k) = {}]_vars

\* both collections have their ids, one id was reused from the existing
\* schema and one was found by find_id, and collect_ids has run
C30_Witness ==
    /\ built.op = "collect_ids"
    /\ built.args # << >>
    /\ \E e \in IdEntries(schema) : IdOf(schema, e) \in AllUsedIds(built.args)
    /\ \E e \in IdEntries(schema) : IdOf(schema, e) \notin AllUsedIds(built.args)
    /\ \E k \in 1..2 : Len(schema[k].indexes) = 2

====
